---- MODULE Spec2Model ----
(***************************************************************************)
(* A model of the photo gallery of src/chitradrishya.py (a Streamlit       *)
(* script over an SQLite file) and of src/album_category.py.               *)
(*                                                                         *)
(* Text values are sequences of one-character strings, so that the regular *)
(* expression of validate_folder_name and the LIKE patterns of             *)
(* load_folders are computed character by character.                       *)
(*                                                                         *)
(* Two specifications are defined:                                         *)
(*   SpecApi  the DatabaseManager helpers called directly, one call per    *)
(*            step, with arguments drawn from bounded sets;                *)
(*   Spec     the two scripts as a user drives them: one step is one       *)
(*            script run (init_db, the handler of the widget event of      *)
(*            that run, the st.rerun it asks for, and the rendering that   *)
(*            fills the st.cache_data caches).                             *)
(***************************************************************************)
EXTENDS Integers, Sequences, FiniteSets, TLC

VARIABLES
    program,          \* which script of the repository runs
    FORCE_DB_RESET,   \* binding of the global name read at chitradrishya.py:95
    ADMIN_PASSWORD,   \* chitradrishya.py:24
    db,               \* the SQLite file gallery.db
    cache,            \* the st.cache_data stores of load_folders / get_images
    session_state,    \* st.session_state of the browser session
    last_run,         \* how the last script run / helper call ended
    now,              \* datetime.now() as a logical clock
    uuids,            \* number of uuid4() image names drawn for gallery.db so far
    survey_file,      \* album_category.py: survey_data.json
    image_files       \* album_category.py: the image files of each folder's directory

vars == <<program, FORCE_DB_RESET, ADMIN_PASSWORD, db, cache, session_state,
          last_run, now, uuids, survey_file, image_files>>

-----------------------------------------------------------------------------
(* Bounds of the model                                                     *)

MaxUploads == 2
MaxClock == 2
MaxAlbumEntries == 2

-----------------------------------------------------------------------------
(* Text                                                                    *)

LowerLetters == <<"a", "b", "c", "d", "e", "f", "g", "h", "i", "j", "k", "l", "m",
                  "n", "o", "p", "q", "r", "s", "t", "u", "v", "w", "x", "y", "z">>
UpperLetters == <<"A", "B", "C", "D", "E", "F", "G", "H", "I", "J", "K", "L", "M",
                  "N", "O", "P", "Q", "R", "S", "T", "U", "V", "W", "X", "Y", "Z">>
Digits == {"0", "1", "2", "3", "4", "5", "6", "7", "8", "9"}

Range(s) == {s[i] : i \in DOMAIN s}

\* str.lower() on one character, then on a text
LowerChar(c) ==
    IF \E i \in DOMAIN UpperLetters : UpperLetters[i] = c
    THEN LowerLetters[CHOOSE i \in DOMAIN UpperLetters : UpperLetters[i] = c]
    ELSE c

lower(s) == [i \in DOMAIN s |-> LowerChar(s[i])]

\* the character class [a-z0-9_]
SlugChars == Range(LowerLetters) \cup Digits \cup {"_"}

NL == "\n"

\* re.match(r"^[a-z0-9_]{3,20}$", folder): k characters of the class from the
\* start, 3 <= k <= 20, and then "$", which Python matches at the end of the
\* string and also just before a newline that ends the string: k is the
\* whole length, or the length without a final newline.
validate_folder_name(folder) ==
    LET n == Len(folder)
        Body(k) == k >= 3 /\ k <= 20 /\ \A i \in 1..k : folder[i] \in SlugChars
    IN \/ Body(n)
       \/ n >= 1 /\ folder[n] = NL /\ Body(n - 1)

-----------------------------------------------------------------------------
(* Constant texts of the sources                                           *)

T_artist1 == <<"a", "r", "t", "i", "s", "t", "1">>
T_artist2 == <<"a", "r", "t", "i", "s", "t", "2">>
T_artist3 == <<"a", "r", "t", "i", "s", "t", "3">>
T_teacher1 == <<"t", "e", "a", "c", "h", "e", "r", "1">>
T_teacher2 == <<"t", "e", "a", "c", "h", "e", "r", "2">>
T_engineer1 == <<"e", "n", "g", "i", "n", "e", "e", "r", "1">>
T_engineer2 == <<"e", "n", "g", "i", "n", "e", "e", "r", "2">>
T_GraphicDesigner == <<"G", "r", "a", "p", "h", "i", "c", " ", "D", "e", "s", "i", "g", "n", "e", "r">>
T_Painter == <<"P", "a", "i", "n", "t", "e", "r">>
T_LiteratureTeacher == <<"L", "i", "t", "e", "r", "a", "t", "u", "r", "e", " ", "T", "e", "a", "c", "h", "e", "r">>
T_Musician == <<"M", "u", "s", "i", "c", "i", "a", "n">>
T_DataScientist == <<"D", "a", "t", "a", " ", "S", "c", "i", "e", "n", "t", "i", "s", "t">>
T_SoftwareDeveloper == <<"S", "o", "f", "t", "w", "a", "r", "e", " ", "D", "e", "v", "e", "l", "o", "p", "e", "r">>
T_HistoryTeacher == <<"H", "i", "s", "t", "o", "r", "y", " ", "T", "e", "a", "c", "h", "e", "r">>
T_Artists == <<"A", "r", "t", "i", "s", "t", "s">>
T_Teachers == <<"T", "e", "a", "c", "h", "e", "r", "s">>
T_Engineers == <<"E", "n", "g", "i", "n", "e", "e", "r", "s">>

\* the list built at chitradrishya.py:176-184; gen[i] is the i-th value
\* returned by generate_random_name()
default_folders(gen) == <<
    [name |-> gen[1], age |-> 26, profession |-> T_GraphicDesigner, category |-> T_Artists, folder |-> T_artist1],
    [name |-> gen[2], age |-> 29, profession |-> T_Painter, category |-> T_Artists, folder |-> T_artist2],
    [name |-> gen[3], age |-> 30, profession |-> T_LiteratureTeacher, category |-> T_Teachers, folder |-> T_teacher1],
    [name |-> gen[4], age |-> 27, profession |-> T_Musician, category |-> T_Artists, folder |-> T_artist3],
    [name |-> gen[5], age |-> 47, profession |-> T_DataScientist, category |-> T_Engineers, folder |-> T_engineer1],
    [name |-> gen[6], age |-> 25, profession |-> T_SoftwareDeveloper, category |-> T_Engineers, folder |-> T_engineer2],
    [name |-> gen[7], age |-> 34, profession |-> T_HistoryTeacher, category |-> T_Teachers, folder |-> T_teacher2] >>

\* values generate_random_name() returns in the model
T_AnnLee == <<"A", "n", "n", " ", "L", "e", "e">>
GeneratedNames == {T_AnnLee}
GenChoices == [1..7 -> GeneratedNames]

-----------------------------------------------------------------------------
(* The database file                                                       *)

\* FORCE_DB_RESET is used at chitradrishya.py:95 and assigned nowhere in the
\* file: evaluating it raises NameError.  The bound values are the flag the
\* specification describes ("force reset the database", read at startup).
Unbound == "unbound"
FlagValues == {"True", "False"}

\* gallery.db: file = os.path.exists(DB_PATH); tables = the four CREATE TABLE
\* statements have run; each table is the sequence of its rows in rowid
\* order; seq is sqlite_sequence (the last AUTOINCREMENT id of each table).
NoDb == [file |-> FALSE, tables |-> FALSE,
         folders |-> <<>>, images |-> <<>>, surveys |-> <<>>, image_history |-> <<>>,
         seq |-> [images |-> 0, surveys |-> 0, image_history |-> 0]]

\* sqlite3.connect(DB_PATH) creates the file when it is missing
connect(d) == [d EXCEPT !.file = TRUE]

Slugs(d) == {d.folders[i].folder : i \in DOMAIN d.folders}

\* SELECT COUNT(*) FROM folders WHERE folder = ?
CountFolder(d, folder) == Cardinality({i \in DOMAIN d.folders : d.folders[i].folder = folder})

\* INSERT INTO folders without the UNIQUE constraint on folder
InsertFolder_m(d, row) ==
    [db |-> [d EXCEPT !.folders = Append(@, row)], exc |-> "none"]

\* INSERT INTO folders: the UNIQUE constraint on folder raises IntegrityError
InsertFolder(d, row) ==
    IF row.folder \in Slugs(d)
    THEN [db |-> d, exc |-> "IntegrityError"]
    ELSE [db |-> [d EXCEPT !.folders = Append(@, row)], exc |-> "none"]

\* the loop of chitradrishya.py:185-193 over default_folders[i..7]
RECURSIVE InsertDefaults(_, _, _)
InsertDefaults(d, defaults, i) ==
    IF i > Len(defaults) THEN d
    ELSE LET row == defaults[i]
             d1 == IF validate_folder_name(row.folder) /\ CountFolder(d, row.folder) = 0
                   THEN InsertFolder(d, row).db
                   ELSE d
         IN InsertDefaults(d1, defaults, i + 1)

\* DatabaseManager.init_db; writable = os.access(db_dir, os.W_OK)
init_db(d, flag, writable, gen) ==
    IF ~writable THEN [db |-> d, exc |-> "PermissionError"]
    ELSE IF flag = Unbound THEN [db |-> d, exc |-> "NameError"]
    ELSE LET d1 == IF flag = "True" /\ d.file THEN NoDb ELSE d
             d2 == [connect(d1) EXCEPT !.tables = TRUE]
         IN [db |-> InsertDefaults(d2, default_folders(gen), 1), exc |-> "none"]

\* DatabaseManager.add_folder
add_folder(d, folder, name, age, profession, category) ==
    IF ~validate_folder_name(folder) THEN [db |-> d, ret |-> FALSE]
    ELSE LET d1 == connect(d)
             ins == InsertFolder(d1, [folder |-> folder, name |-> name, age |-> age,
                                      profession |-> profession, category |-> category])
         IN IF ~d1.tables THEN [db |-> d1, ret |-> FALSE]
            ELSE IF ins.exc = "none" THEN [db |-> ins.db, ret |-> TRUE]
            ELSE [db |-> d1, ret |-> FALSE]

\* DatabaseManager.update_folder_name
update_folder_name(d, folder, new_name) ==
    LET d1 == connect(d)
    IN IF ~d1.tables THEN [db |-> d1, ret |-> FALSE]
       ELSE [db |-> [d1 EXCEPT !.folders =
                        [i \in DOMAIN @ |-> IF @[i].folder = folder
                                            THEN [@[i] EXCEPT !.name = new_name]
                                            ELSE @[i]]],
             ret |-> TRUE]

-----------------------------------------------------------------------------
(* Image bytes and the imaging library                                     *)

\* A blob is the bytes of an image file: src names the picture it was made
\* from, fmt its encoding, edits the operations applied to it since, and q
\* what the imaging library makes of it: "good" opens and decodes, "truncated"
\* opens (and passes verify()) but fails to decode, "junk" does not open.
NoneBlob == [src |-> "None", fmt |-> "None", edits |-> <<>>, q |-> "None"]

RawBlob(src, fmt, q) == [src |-> src, fmt |-> fmt, edits |-> <<>>, q |-> q]

\* Image.open(io.BytesIO(data)) succeeds
Opens(data) == data.q \in {"good", "truncated"}

\* the pixels load: Image.copy(), Image.thumbnail(), st.image() do not raise
Decodes(data) == data.q = "good"

\* an imaging operation that saves in the format it read
ImageOp_m(image_data, op) ==
    IF image_data.q # "good" THEN NoneBlob
    ELSE [src |-> image_data.src, fmt |-> image_data.fmt,
          edits |-> Append(image_data.edits, op), q |-> "good"]

\* the body shared by crop_image, rotate_image, adjust_brightness,
\* adjust_contrast, adjust_sharpness and convert_to_grayscale: open, convert,
\* operate, save as PNG; any exception is caught and None is returned
ImageOp(image_data, op) ==
    IF image_data.q # "good" THEN NoneBlob
    ELSE [src |-> image_data.src, fmt |-> "PNG",
          edits |-> Append(image_data.edits, op), q |-> "good"]

\* chitradrishya.py:474: img.crop(crop_box) raises DecompressionBombError for
\* a box of more than twice Image.MAX_IMAGE_PIXELS (89478485) pixels
Refused(crop_box) ==
    (crop_box[3] - crop_box[1]) * (crop_box[4] - crop_box[2]) > 2 * 89478485

\* chitradrishya.py:470-482: img.crop(crop_box) raising is caught like every
\* other exception and None is returned
crop_image(image_data, crop_box) ==
    IF Refused(crop_box) THEN NoneBlob ELSE ImageOp(image_data, <<"crop", crop_box>>)
rotate_image(image_data, degrees) == ImageOp(image_data, <<"rotate", degrees>>)
adjust_brightness(image_data, factor) == ImageOp(image_data, <<"brightness", factor>>)
adjust_contrast(image_data, factor) == ImageOp(image_data, <<"contrast", factor>>)
adjust_sharpness(image_data, factor) == ImageOp(image_data, <<"sharpness", factor>>)
convert_to_grayscale(image_data) == ImageOp(image_data, <<"grayscale">>)

-----------------------------------------------------------------------------
(* DatabaseManager: images, history, surveys                               *)

\* DatabaseManager.load_images_to_db; uuid4() values are first + 1, first + 2, ...
\* A None in the list violates NOT NULL: IntegrityError is not caught by the
\* helper, the commit is never reached and the connection closes.
RECURSIVE InsertImages(_, _, _, _, _)
InsertImages(d, edited_data_list, folder, download_allowed, first) ==
    IF edited_data_list = <<>> THEN [db |-> d, exc |-> "none"]
    ELSE IF Head(edited_data_list) = NoneBlob THEN [db |-> d, exc |-> "IntegrityError"]
    ELSE LET row == [id |-> d.seq.images + 1, name |-> first + 1, folder |-> folder,
                     image_data |-> Head(edited_data_list),
                     download_allowed |-> download_allowed]
             d1 == [d EXCEPT !.images = Append(@, row), !.seq.images = @ + 1]
         IN InsertImages(d1, Tail(edited_data_list), folder, download_allowed, first + 1)

\* a load_images_to_db that commits after every INSERT
load_images_to_db_m(d, edited_data_list, folder, download_allowed, first) ==
    LET d1 == connect(d)
    IN IF ~d1.tables THEN [db |-> d1, exc |-> "none"]
       ELSE InsertImages(d1, edited_data_list, folder, download_allowed, first)

\* conn.commit() comes after the loop (chitradrishya.py:276): the INSERTs of
\* one call are one transaction, which closing the connection rolls back
load_images_to_db(d, edited_data_list, folder, download_allowed, first) ==
    LET d1 == connect(d)
        r == InsertImages(d1, edited_data_list, folder, download_allowed, first)
    IN IF ~d1.tables THEN [db |-> d1, exc |-> "none"]
       ELSE IF r.exc = "none" THEN r
       ELSE [db |-> d1, exc |-> r.exc]

\* UPDATE images SET image_data = ? WHERE folder = ? AND name = ?
UpdateImageData(d, folder, name, image_data) ==
    [d EXCEPT !.images = [i \in DOMAIN @ |->
        IF @[i].folder = folder /\ @[i].name = name
        THEN [@[i] EXCEPT !.image_data = image_data] ELSE @[i]]]

\* a swap_image whose UPDATE finds the row by its name alone
swap_image_m(d, folder, old_image_name, new_image_data) ==
    LET d1 == connect(d)
    IN IF ~d1.tables THEN [db |-> d1, ret |-> FALSE]
       ELSE [db |-> [d1 EXCEPT !.images = [i \in DOMAIN @ |->
                        IF @[i].name = old_image_name
                        THEN [@[i] EXCEPT !.image_data = new_image_data] ELSE @[i]]],
             ret |-> TRUE]

\* DatabaseManager.swap_image; new_image_data = new_image_file.read()
swap_image(d, folder, old_image_name, new_image_data) ==
    LET d1 == connect(d)
    IN IF ~d1.tables THEN [db |-> d1, ret |-> FALSE]
       ELSE [db |-> UpdateImageData(d1, folder, old_image_name, new_image_data), ret |-> TRUE]

\* DatabaseManager.save_image_history; every exception is logged and dropped
save_image_history(d, image_id, folder, image_data, timestamp) ==
    LET d1 == connect(d)
    IN IF ~d1.tables \/ image_data = NoneBlob THEN d1
       ELSE [d1 EXCEPT !.image_history =
                 Append(@, [id |-> d1.seq.image_history + 1, image_id |-> image_id,
                            folder |-> folder, image_data |-> image_data,
                            timestamp |-> timestamp]),
                       !.seq.image_history = @ + 1]

\* a get_image_id that looks the image up by name alone
get_image_id_m(d, folder, image_name) ==
    LET hits == {i \in DOMAIN d.images : d.images[i].name = image_name}
    IN IF hits = {} THEN 0
       ELSE d.images[CHOOSE i \in hits : \A j \in hits : i <= j].id

\* DatabaseManager.get_image_id; 0 stands for None (ids start at 1)
get_image_id(d, folder, image_name) ==
    LET hits == {i \in DOMAIN d.images :
                    d.images[i].folder = folder /\ d.images[i].name = image_name}
    IN IF hits = {} THEN 0
       ELSE d.images[CHOOSE i \in hits : \A j \in hits : i <= j].id

\* the oldest snapshot instead of the newest
LatestHistory_m(d, image_id) ==
    LET hits == {i \in DOMAIN d.image_history : d.image_history[i].image_id = image_id}
    IN IF hits = {} THEN 0
       ELSE CHOOSE i \in hits :
                \A j \in hits : d.image_history[i].timestamp <= d.image_history[j].timestamp

\* SELECT ... FROM image_history WHERE image_id = ? ORDER BY timestamp DESC LIMIT 1
LatestHistory(d, image_id) ==
    LET hits == {i \in DOMAIN d.image_history : d.image_history[i].image_id = image_id}
    IN IF hits = {} THEN 0
       ELSE CHOOSE i \in hits :
                \A j \in hits : \/ d.image_history[j].timestamp < d.image_history[i].timestamp
                                \/ (d.image_history[j].timestamp = d.image_history[i].timestamp /\ i <= j)

\* DatabaseManager.undo_image_edit
undo_image_edit(d, folder, image_name) ==
    LET d1 == connect(d)
        image_id == get_image_id(d1, folder, image_name)
        h == LatestHistory(d1, image_id)
        hrow == d1.image_history[h]
        Other(r) == ~(r.image_id = image_id /\ r.timestamp = hrow.timestamp)
    IN IF ~d1.tables \/ image_id = 0 \/ h = 0 THEN [db |-> d1, ret |-> FALSE]
       ELSE [db |-> [UpdateImageData(d1, folder, image_name, hrow.image_data)
                        EXCEPT !.image_history = SelectSeq(@, Other)],
             ret |-> TRUE]

\* DatabaseManager.update_download_permission
update_download_permission(d, folder, image_name, download_allowed) ==
    [connect(d) EXCEPT !.images = [i \in DOMAIN @ |->
        IF @[i].folder = folder /\ @[i].name = image_name
        THEN [@[i] EXCEPT !.download_allowed = download_allowed] ELSE @[i]]]

\* DatabaseManager.delete_image
delete_image(d, folder, name) ==
    LET Other(r) == ~(r.folder = folder /\ r.name = name)
    IN [connect(d) EXCEPT !.images = SelectSeq(@, Other)]

\* an INSERT INTO surveys with the folder and feedback values exchanged
save_survey_data_m(d, folder, rating, feedback, timestamp) ==
    IF ~d.tables THEN connect(d)
    ELSE
    [d EXCEPT !.surveys = Append(@, [id |-> d.seq.surveys + 1, folder |-> feedback,
                                     rating |-> rating, feedback |-> folder,
                                     timestamp |-> timestamp]),
              !.seq.surveys = @ + 1]

\* DatabaseManager.save_survey_data
save_survey_data(d, folder, rating, feedback, timestamp) ==
    IF ~d.tables THEN connect(d)
    ELSE
    [d EXCEPT !.surveys = Append(@, [id |-> d.seq.surveys + 1, folder |-> folder,
                                     rating |-> rating, feedback |-> feedback,
                                     timestamp |-> timestamp]),
              !.seq.surveys = @ + 1]

\* DatabaseManager.delete_survey_entry
delete_survey_entry(d, folder, timestamp) ==
    LET Other(r) == ~(r.folder = folder /\ r.timestamp = timestamp)
    IN [connect(d) EXCEPT !.surveys = SelectSeq(@, Other)]

\* DatabaseManager.load_survey_data, for one folder: survey_data.get(folder, [])
load_survey_data(d, folder) ==
    LET Mine(r) == r.folder = folder
    IN SelectSeq(d.surveys, Mine)

-----------------------------------------------------------------------------
(* Reads, and the st.cache_data stores in front of them                    *)

\* SQLite's LIKE: "%" matches any run of characters, "_" any one character,
\* and ASCII letters match without regard to case
RECURSIVE Like(_, _)
Like(pattern, text) ==
    IF pattern = <<>> THEN text = <<>>
    ELSE IF Head(pattern) = "%"
         THEN Like(Tail(pattern), text) \/ (text # <<>> /\ Like(pattern, Tail(text)))
    ELSE IF text = <<>> THEN FALSE
    ELSE /\ Head(pattern) = "_" \/ LowerChar(Head(pattern)) = LowerChar(Head(text))
         /\ Like(Tail(pattern), Tail(text))

\* DatabaseManager.load_folders, the uncached body
load_folders(d, search_query) ==
    LET pat == <<"%">> \o search_query \o <<"%">>
        Hit(r) == \/ Like(pat, r.name) \/ Like(pat, r.folder)
                  \/ Like(pat, r.profession) \/ Like(pat, r.category)
    IN SelectSeq(d.folders, Hit)

\* DatabaseManager.get_images, the uncached body: a row whose blob does not
\* open, or whose thumbnail cannot be made, is reported and left out
get_images(d, folder) ==
    LET Mine(r) == r.folder = folder /\ Decodes(r.image_data)
        rows == SelectSeq(d.images, Mine)
    IN [i \in DOMAIN rows |-> [name |-> rows[i].name, data |-> rows[i].image_data,
                               download |-> rows[i].download_allowed]]

\* @st.cache_data: the first call with given arguments computes and stores
\* the result, every later call in the process returns the stored result.
\* The key is the tuple of arguments the call passes.
cached_load_folders(c, d, key) ==
    IF key \in DOMAIN c.load_folders THEN c
    ELSE [c EXCEPT !.load_folders =
             (key :> load_folders(d, IF key = <<>> THEN <<>> ELSE key[1])) @@ @]

cached_get_images(c, d, folder) ==
    IF folder \in DOMAIN c.get_images THEN c
    ELSE [c EXCEPT !.get_images = (folder :> get_images(d, folder)) @@ @]

NoCache == [load_folders |-> <<>>, get_images |-> <<>>]

-----------------------------------------------------------------------------
(* Uploaded files                                                          *)

MAX_FILE_SIZE_MB == 5

\* a validate_file without the size check
validate_file_m(file) ==
    LET file_type == IF file.type # "" THEN file.type ELSE file.ext
    IN /\ file_type \in {"image/jpeg", "image/png", ".jpg", ".jpeg", ".png"}
       /\ Opens(file.data)

\* validate_file; a file is [ext, type, size, data]; type "" is a missing
\* MIME type, for which the extension decides
validate_file(file) ==
    LET file_type == IF file.type # "" THEN file.type ELSE file.ext
    IN /\ file.size <= MAX_FILE_SIZE_MB * 1024 * 1024
       /\ file_type \in {"image/jpeg", "image/png", ".jpg", ".jpeg", ".png"}
       /\ Opens(file.data)

\* the edit controls of the upload preview and of the Edit Image form; the
\* float sliders are counted in tenths (10 is 1.0)
NoCrop == [kind |-> "None", left |-> 0, top |-> 0, right |-> 0, bottom |-> 0]
Box(l, t, r, b) == [kind |-> "box", left |-> l, top |-> t, right |-> r, bottom |-> b]
\* a JSON object that has left, top and right but no bottom
NoBottom(l, t, r) == [kind |-> "partial", left |-> l, top |-> t, right |-> r, bottom |-> 0]

DefaultControls == [crop |-> NoCrop, rotate |-> 0, brightness |-> 10, contrast |-> 10,
                    sharpness |-> 10, grayscale |-> FALSE]

\* the images of the model are no wider than their canvas: scale_x = scale_y = 1
crop_box(coords) == <<coords.left, coords.top, coords.right, coords.bottom>>
ValidBox(b) == b[1] < b[3] /\ b[2] < b[4]

\* chitradrishya.py:893-912 and 1215-1224: the edits after the crop
RotateIfSet(data, ctl) ==
    IF ctl.rotate # 0 THEN rotate_image(data, ctl.rotate) ELSE data
BrightnessIfSet(data, ctl) ==
    IF ctl.brightness # 10 THEN adjust_brightness(data, ctl.brightness) ELSE data
ContrastIfSet(data, ctl) ==
    IF ctl.contrast # 10 THEN adjust_contrast(data, ctl.contrast) ELSE data
SharpnessIfSet(data, ctl) ==
    IF ctl.sharpness # 10 THEN adjust_sharpness(data, ctl.sharpness) ELSE data
GrayscaleIfSet(data, ctl) ==
    IF ctl.grayscale THEN convert_to_grayscale(data) ELSE data

EditsAfterCrop(data, ctl) ==
    GrayscaleIfSet(SharpnessIfSet(ContrastIfSet(BrightnessIfSet(
        RotateIfSet(data, ctl), ctl), ctl), ctl), ctl)

\* an upload pipeline that saves every file through the imaging library
UploadPipeline_m(file_data, ctl) ==
    LET cropped == IF ctl.crop.kind = "box" /\ ValidBox(crop_box(ctl.crop))
                   THEN crop_image(file_data, crop_box(ctl.crop))
                   ELSE file_data
    IN EditsAfterCrop(rotate_image(cropped, 0), ctl)

\* chitradrishya.py:861-912: after_data of one previewed file
UploadPipeline(file_data, ctl) ==
    LET cropped == IF ctl.crop.kind = "box" /\ ValidBox(crop_box(ctl.crop))
                   THEN crop_image(file_data, crop_box(ctl.crop))
                   ELSE file_data
    IN EditsAfterCrop(cropped, ctl)

\* chitradrishya.py:818-930: edited_data_list of the valid files; a file whose
\* preview raises (pixels that do not load, a crop object without a key) is
\* reported by the except clause at 929 and not appended
RECURSIVE EditedDataList(_)
EditedDataList(files) ==
    IF files = <<>> THEN <<>>
    ELSE IF /\ validate_file(Head(files).file)
            /\ Decodes(Head(files).file.data)
            /\ Head(files).ctl.crop.kind # "partial"
         THEN <<UploadPipeline(Head(files).file.data, Head(files).ctl)>>
              \o EditedDataList(Tail(files))
         ELSE EditedDataList(Tail(files))

-----------------------------------------------------------------------------
(* One run of chitradrishya.py                                             *)
(*                                                                         *)
(* A run is threaded through a record w: the database, the caches, the     *)
(* session state, the clock and the uuid count, exc = the exception that   *)
(* ended the run ("none" while it is running) and rerun = st.rerun() was   *)
(* called.  Each step below is one stretch of the script, in script order; *)
(* a step does nothing once the run has ended.  ev is the widget event     *)
(* that triggered the run together with the widget values sent with it.    *)

Live(w) == w.exc = "none" /\ ~w.rerun

FolderSet(data) == {data[i].folder : i \in DOMAIN data}
NameSet(images) == {images[i].name : i \in DOMAIN images}

\* chitradrishya.py:565-585: init_db at the top of every run; an exception
\* other than sqlite3.OperationalError ends the run
InitDbStep(w, flag, env) ==
    IF ~Live(w) THEN w
    ELSE LET r == init_db(w.db, flag, env.writable, env.gen)
         IN [w EXCEPT !.db = r.db, !.exc = r.exc]

\* a login form that takes any password
LoginStep_m(w, ev, password) ==
    IF Live(w) /\ ev.kind = "login"
    THEN [w EXCEPT !.ss.is_author = TRUE]
    ELSE w

\* chitradrishya.py:741-750
LoginStep(w, ev, password) ==
    IF Live(w) /\ ev.kind = "login" /\ ev.pwd = password
    THEN [w EXCEPT !.ss.is_author = TRUE]
    ELSE w

\* chitradrishya.py:751-758
LogoutStep(w, ev) ==
    IF Live(w) /\ w.ss.is_author /\ ev.kind = "logout"
    THEN [w EXCEPT !.ss.is_author = FALSE, !.rerun = TRUE]
    ELSE w

\* author controls shown to every visitor
AuthorGate_m(ss) == TRUE

\* chitradrishya.py:765, 1101, 1126, 1176: the author controls are run only
\* for an author
AuthorGate(ss) == ss.is_author

\* chitradrishya.py:769-786
AddFolderStep(w, ev) ==
    IF Live(w) /\ AuthorGate(w.ss) /\ ev.kind = "add_folder"
       /\ ev.new_folder # <<>> /\ ev.new_name # <<>>
       /\ ev.new_profession # <<>> /\ ev.new_category # <<>>
    THEN LET r == add_folder(w.db, lower(ev.new_folder), ev.new_name, ev.new_age,
                             ev.new_profession, ev.new_category)
         IN [w EXCEPT !.db = r.db, !.rerun = r.ret]
    ELSE w

\* chitradrishya.py:790: data = DatabaseManager.load_folders()
SidebarDataStep(w) ==
    IF Live(w) /\ AuthorGate(w.ss)
    THEN [w EXCEPT !.cache = cached_load_folders(@, w.db, <<>>)]
    ELSE w

SidebarData(w) == w.cache.load_folders[<<>>]

\* chitradrishya.py:791-806
UpdateNameStep(w, ev) ==
    IF Live(w) /\ AuthorGate(w.ss) /\ ev.kind = "update_name"
       /\ ev.folder \in FolderSet(SidebarData(w)) /\ ev.new_name # <<>>
    THEN LET r == update_folder_name(w.db, ev.folder, ev.new_name)
         IN [w EXCEPT !.db = r.db, !.rerun = r.ret]
    ELSE w

\* chitradrishya.py:809-948: the button is there when some file is valid
UploadStep(w, ev) ==
    IF Live(w) /\ AuthorGate(w.ss) /\ ev.kind = "upload"
       /\ ev.folder \in FolderSet(SidebarData(w))
       /\ \E i \in DOMAIN ev.files : validate_file(ev.files[i].file)
    THEN LET edited_data_list == EditedDataList(ev.files)
             r == load_images_to_db(w.db, edited_data_list, ev.folder,
                                    ev.download_allowed, w.uuids)
         IN [w EXCEPT !.db = r.db, !.uuids = @ + Len(edited_data_list),
                      !.exc = r.exc, !.rerun = (r.exc = "none")]
    ELSE w

\* chitradrishya.py:951-968; the selectbox shows the first folder until the
\* user picks another one
SwapStep(w, ev) ==
    IF Live(w) /\ AuthorGate(w.ss)
    THEN LET data == SidebarData(w)
             folder_choice_swap == IF ev.kind = "swap" /\ ev.folder \in FolderSet(data)
                                   THEN ev.folder ELSE data[1].folder
             c1 == cached_get_images(w.cache, w.db, folder_choice_swap)
             images == c1.get_images[folder_choice_swap]
             w1 == [w EXCEPT !.cache = c1]
         IN IF ev.kind = "swap" /\ ev.folder \in FolderSet(data)
               /\ ev.image \in NameSet(images) /\ validate_file(ev.file)
            THEN LET r == swap_image(w1.db, folder_choice_swap, ev.image, ev.file.data)
                 IN [w1 EXCEPT !.db = r.db, !.rerun = r.ret]
            ELSE w1
    ELSE w

\* chitradrishya.py:986-989: one update per image whose checkbox differs
\* from the listed flag
RECURSIVE ApplyPermissions(_, _, _, _)
ApplyPermissions(d, folder, images, flip) ==
    IF images = <<>> THEN d
    ELSE LET img == Head(images)
             d1 == IF img.name \in flip
                   THEN update_download_permission(d, folder, img.name, ~img.download)
                   ELSE d
         IN ApplyPermissions(d1, folder, Tail(images), flip)

\* chitradrishya.py:971-994; the selectbox key holds a fresh uuid4() in every
\* run, so the widget is new in every run and shows the first folder
PermissionStep(w, ev) ==
    IF Live(w) /\ AuthorGate(w.ss)
    THEN LET data == SidebarData(w)
             folder_choice_perm == data[1].folder
             c1 == cached_get_images(w.cache, w.db, folder_choice_perm)
             images == c1.get_images[folder_choice_perm]
             w1 == [w EXCEPT !.cache = c1]
         IN IF ev.kind = "permissions" /\ images # <<>>
            THEN [w1 EXCEPT !.db = ApplyPermissions(w1.db, folder_choice_perm, images,
                                                    ev.flip \cap NameSet(images)),
                            !.rerun = TRUE]
            ELSE w1
    ELSE w

\* chitradrishya.py:1002-1008: data = DatabaseManager.load_folders(search_query)
MainDataStep(w, ev) ==
    IF Live(w) THEN [w EXCEPT !.cache = cached_load_folders(@, w.db, <<ev.q>>)]
    ELSE w

MainData(w, ev) == w.cache.load_folders[<<ev.q>>]

\* chitradrishya.py:1058 for every folder card of the grid
RECURSIVE FillImages(_, _, _)
FillImages(c, d, data) ==
    IF data = <<>> THEN c
    ELSE FillImages(cached_get_images(c, d, Head(data).folder), d, Tail(data))

\* chitradrishya.py:1047-1111: the grid view
GridStep(w, ev) ==
    IF Live(w) /\ w.ss.zoom_folder = <<>>
    THEN LET data == MainData(w, ev)
             c1 == FillImages(w.cache, w.db, data)
             w1 == [w EXCEPT !.cache = c1]
         IN IF ev.kind = "view" /\ ev.folder \in FolderSet(data)
               /\ ev.idx < Len(c1.get_images[ev.folder])
            THEN [w1 EXCEPT !.ss.zoom_folder = ev.folder, !.ss.zoom_index = ev.idx,
                            !.rerun = TRUE]
            ELSE IF ev.kind = "survey" /\ ev.folder \in FolderSet(data)
            THEN [w1 EXCEPT !.db = save_survey_data(@, ev.folder, ev.rating, ev.feedback,
                                                    w.now + 1),
                            !.now = @ + 1, !.rerun = TRUE]
            ELSE IF ev.kind = "delete_survey" /\ AuthorGate(w.ss)
                    /\ ev.folder \in FolderSet(data)
                    /\ \E i \in DOMAIN w.db.surveys :
                          /\ w.db.surveys[i].folder = ev.folder
                          /\ w.db.surveys[i].timestamp = ev.timestamp
            THEN [w1 EXCEPT !.db = delete_survey_entry(@, ev.folder, ev.timestamp),
                            !.rerun = TRUE]
            ELSE w1
    ELSE w

\* chitradrishya.py:1201-1224: edited_data of Apply Edits and the crop_coords
\* it leaves in the session; crop_coords["bottom"] of an object without that
\* key raises KeyError (1210), which nothing in the form catches
ApplyPipeline(data, coords, ctl) ==
    LET crop == coords.kind = "box" /\ ValidBox(crop_box(coords))
        cropped == IF crop THEN crop_image(data, crop_box(coords)) ELSE data
    IN IF coords.kind = "partial"
       THEN [data |-> data, crop_coords |-> coords, exc |-> "KeyError"]
       ELSE [data |-> EditsAfterCrop(cropped, ctl),
             crop_coords |-> IF crop THEN NoCrop ELSE coords, exc |-> "none"]

Max(a, b) == IF a >= b THEN a ELSE b

\* chitradrishya.py:1225-1242: the UPDATE of Apply Edits, with edited_data
\* p.data in hand
SaveEdits(w, folder, img_dict, p) ==
    IF p.exc # "none" THEN [w EXCEPT !.exc = p.exc]
    ELSE IF p.data # NoneBlob
    THEN [w EXCEPT !.db = UpdateImageData(@, folder, img_dict.name, p.data),
                   !.ss.crop_coords = p.crop_coords, !.rerun = TRUE]
    ELSE [w EXCEPT !.ss.crop_coords = p.crop_coords]

\* chitradrishya.py:1196-1199: the history snapshot of the listed bytes
SaveHistory(w, folder, img_dict, image_id) ==
    IF image_id # 0
    THEN [w EXCEPT !.db = save_image_history(@, image_id, folder, img_dict.data, w.now + 1),
                   !.now = @ + 1]
    ELSE w

\* chitradrishya.py:1195-1242: Apply Edits on the listed image img_dict
ApplyEdits(w, folder, img_dict, ctl) ==
    SaveEdits(SaveHistory(w, folder, img_dict, get_image_id(w.db, folder, img_dict.name)),
              folder, img_dict, ApplyPipeline(img_dict.data, w.ss.crop_coords, ctl))

\* chitradrishya.py:1180-1186: the crop text of the Edit Image form
CropInput(w, ev) ==
    IF AuthorGate(w.ss) /\ ev.kind = "apply" /\ ev.crop_coords_input.kind # "None"
    THEN [w EXCEPT !.ss.crop_coords = IF ev.crop_coords_input.kind \in {"box", "partial"}
                                      THEN ev.crop_coords_input ELSE NoCrop]
    ELSE w

\* chitradrishya.py:1244-1252 with the result r of undo_image_edit
UndoResult(w, r) == [w EXCEPT !.db = r.db, !.rerun = r.ret]

\* chitradrishya.py:1254-1264: delete_image, then len(get_images(folder))
DeleteResult(w, folder, idx) ==
    IF Len(w.cache.get_images[folder]) = 0
    THEN [w EXCEPT !.ss.zoom_folder = <<>>, !.ss.zoom_index = 0, !.rerun = TRUE]
    ELSE [w EXCEPT !.ss.zoom_index = Max(0, idx - 1), !.rerun = TRUE]

DeleteImageButton(w, folder, idx, d1) ==
    DeleteResult([w EXCEPT !.db = d1, !.cache = cached_get_images(@, d1, folder)],
                 folder, idx)

\* a zoom view whose Next button is drawn on the last image too
ZoomView_m(w, ev) ==
    LET folder == w.ss.zoom_folder
        images == w.cache.get_images[folder]
        idx == w.ss.zoom_index
    IN IF images = <<>> THEN [w EXCEPT !.exc = "IndexError"]
       ELSE IF ev.kind = "prev" /\ idx > 0
       THEN [w EXCEPT !.ss.zoom_index = @ - 1, !.rerun = TRUE]
       ELSE IF ev.kind = "next"
       THEN [w EXCEPT !.ss.zoom_index = @ + 1, !.rerun = TRUE]
       ELSE IF ev.kind = "apply" /\ AuthorGate(w.ss)
       THEN ApplyEdits(CropInput(w, ev), folder, images[idx + 1], ev.ctl)
       ELSE IF ev.kind = "undo" /\ AuthorGate(w.ss)
       THEN UndoResult(w, undo_image_edit(w.db, folder, images[idx + 1].name))
       ELSE IF ev.kind = "delete_image" /\ AuthorGate(w.ss)
       THEN DeleteImageButton(w, folder, idx, delete_image(w.db, folder, images[idx + 1].name))
       ELSE IF ev.kind = "back"
       THEN [w EXCEPT !.ss.zoom_folder = <<>>, !.ss.zoom_index = 0,
                      !.ss.crop_coords = NoCrop, !.rerun = TRUE]
       ELSE w

\* chitradrishya.py:1120-1273 once images = get_images(folder) is in the
\* cache; each button runs its handler in the run its press triggers
ZoomView(w, ev) ==
    LET folder == w.ss.zoom_folder
        images == w.cache.get_images[folder]
        idx == w.ss.zoom_index
        img_dict == images[idx + 1]
    IN IF images = <<>> THEN [w EXCEPT !.exc = "IndexError"]
       ELSE IF ev.kind = "prev" /\ idx > 0
       THEN [w EXCEPT !.ss.zoom_index = @ - 1, !.rerun = TRUE]
       ELSE IF ev.kind = "next" /\ idx < Len(images) - 1
       THEN [w EXCEPT !.ss.zoom_index = @ + 1, !.rerun = TRUE]
       ELSE IF ev.kind = "apply" /\ AuthorGate(w.ss)
       THEN ApplyEdits(CropInput(w, ev), folder, img_dict, ev.ctl)
       ELSE IF ev.kind = "undo" /\ AuthorGate(w.ss)
       THEN UndoResult(w, undo_image_edit(w.db, folder, img_dict.name))
       ELSE IF ev.kind = "delete_image" /\ AuthorGate(w.ss)
       THEN DeleteImageButton(w, folder, idx, delete_image(w.db, folder, img_dict.name))
       ELSE IF ev.kind = "back"
       THEN [w EXCEPT !.ss.zoom_folder = <<>>, !.ss.zoom_index = 0,
                      !.ss.crop_coords = NoCrop, !.rerun = TRUE]
       ELSE w

\* chitradrishya.py:1118-1121: an index past the end falls back to 0
ZoomIndex(w) ==
    IF w.ss.zoom_index >= Len(w.cache.get_images[w.ss.zoom_folder])
    THEN [w EXCEPT !.ss.zoom_index = 0] ELSE w

\* chitradrishya.py:1114-1273: the zoom view
ZoomStep(w, ev) ==
    IF Live(w) /\ w.ss.zoom_folder # <<>>
    THEN ZoomView(ZoomIndex([w EXCEPT !.cache = cached_get_images(@, w.db, w.ss.zoom_folder)]),
                  ev)
    ELSE w

\* the script from top to bottom
RunOnce(w, ev, flag, password, env) ==
    LET w1 == InitDbStep(w, flag, env)
        w2 == LoginStep(w1, ev, password)
        w3 == LogoutStep(w2, ev)
        w4 == AddFolderStep(w3, ev)
        w5 == SidebarDataStep(w4)
        w6 == UpdateNameStep(w5, ev)
        w7 == UploadStep(w6, ev)
        w8 == SwapStep(w7, ev)
        w9 == PermissionStep(w8, ev)
        w10 == MainDataStep(w9, ev)
        w11 == GridStep(w10, ev)
    IN ZoomStep(w11, ev)

NoEvent(q) == [kind |-> "none", q |-> q]

\* st.rerun() ends the run and starts the script again, with no widget event
RECURSIVE Script(_, _, _, _, _)
Rerun(a, ev, flag, password, env) ==
    IF a.rerun /\ a.exc = "none"
    THEN Script([a EXCEPT !.rerun = FALSE], NoEvent(ev.q), flag, password, env)
    ELSE a

Script(w, ev, flag, password, env) ==
    Rerun(RunOnce(w, ev, flag, password, env), ev, flag, password, env)

-----------------------------------------------------------------------------
(* Values the model draws inputs from                                      *)

T_abc == <<"a", "b", "c">>
T_ab == <<"a", "b">>
T_abcNL == <<"a", "b", "c", NL>>
T_aDashc == <<"a", "-", "c">>
T_ABC == <<"A", "B", "C">>
T_x20 == [i \in 1..20 |-> "x"]
T_x21 == [i \in 1..21 |-> "x"]
T_Bo == <<"B", "o">>
T_Poet == <<"P", "o", "e", "t">>

\* slugs passed to the helpers
SlugInputs == {T_abc, T_ab, T_abcNL, T_aDashc, T_ABC, T_x20, T_x21, T_artist1}
NameInputs == {T_Bo}
AgeInputs == {40}
ProfessionInputs == {T_Poet}
CategoryInputs == {T_Artists}

\* chitradrishya.py:572-585; <<>> stands for zoom_folder = None
NoSession == [is_author |-> FALSE, zoom_folder |-> <<>>, zoom_index |-> 0, crop_coords |-> NoCrop]

NoRun == [op |-> "none", folder |-> <<>>, ret |-> FALSE, exc |-> "none"]

\* os.getenv("ADMIN_PASSWORD", "admin123") and what a visitor types
AdminPasswords == {"admin123"}
PasswordInputs == {"admin123", "letmein", ""}

\* what the visitor types into the search box
Queries == {<<>>}

\* the folders the visitor works with, the slugs typed into Add Folder
UiFolders == {T_artist1, T_teacher1}
RenameFolders == {T_artist1}
SurveyFolders == {T_artist1}
UiSlugInputs == {T_abc, T_ABC, T_ab, T_artist1}

\* st.slider("Rating (1-5)", 1, 5, 3): chitradrishya.py:1076 and
\* album_category.py:125; the model submits the ends and the default
rating_slider_m == [min_value |-> 0, max_value |-> 5, value |-> 3]
rating_slider == [min_value |-> 1, max_value |-> 5, value |-> 3]
album_rating_slider == [min_value |-> 1, max_value |-> 5, value |-> 3]
SliderInputs(sl) == {sl.min_value, sl.value, sl.max_value}
FeedbackInputs == {<<>>}

\* files offered to the uploader
F_jpg == [ext |-> ".jpg", type |-> "image/jpeg", size |-> 1000,
          data |-> RawBlob("a", "JPEG", "good")]
F_png == [ext |-> ".png", type |-> "image/png", size |-> 2000,
          data |-> RawBlob("b", "PNG", "good")]
F_trunc == [ext |-> ".jpg", type |-> "image/jpeg", size |-> 900,
            data |-> RawBlob("c", "JPEG", "truncated")]
F_big == [ext |-> ".png", type |-> "image/png", size |-> 5242881,
          data |-> RawBlob("d", "PNG", "good")]
F_gif == [ext |-> ".gif", type |-> "image/gif", size |-> 1000,
          data |-> RawBlob("e", "GIF", "good")]

Rotated == [DefaultControls EXCEPT !.rotate = 90]
CroppedGray == [DefaultControls EXCEPT !.crop = Box(0, 0, 2, 2), !.grayscale = TRUE]

\* what the author sets in the Upload Images expander before pressing the button
UploadInputs == {
    [folder |-> T_artist1, download_allowed |-> TRUE,
     files |-> <<[file |-> F_jpg, ctl |-> DefaultControls]>>],
    [folder |-> T_artist1, download_allowed |-> FALSE,
     files |-> <<[file |-> F_big, ctl |-> DefaultControls],
                 [file |-> F_png, ctl |-> CroppedGray]>>],
    [folder |-> T_teacher1, download_allowed |-> FALSE,
     files |-> <<[file |-> F_trunc, ctl |-> DefaultControls],
                 [file |-> F_png, ctl |-> DefaultControls]>>] }
SwapFiles == {F_png, F_gif}
\* what the author sets in the Edit Image form before pressing Apply Edits
ApplyInputs == { [ctl |-> Rotated, crop_coords_input |-> NoCrop],
                 [ctl |-> DefaultControls, crop_coords_input |-> Box(0, 0, 2, 2)] }

\* the script runs in a directory it may write to
Envs == [writable : {TRUE}, gen : GenChoices]

-----------------------------------------------------------------------------
(* album_category.py                                                       *)

AlbumFolders == {"xiaojing", "yuena", "chunyang", "yu", "yijie", "haoran"}
AlbumUiFolders == {"xiaojing", "yu"}

\* survey_data.json: exists = os.path.exists(SURVEY_FILE), data = its content
NoSurveyFile == [exists |-> FALSE, data |-> [f \in AlbumFolders |-> <<>>]]

\* os.listdir(folder_path) filtered to image files: the number of entries
\* of each folder's directory; 0 also stands for a missing directory
NoImageFiles == [f \in AlbumFolders |-> 0]

\* album_category.py:29-37; ok = open() and json.load() did not raise.  When
\* they raise (the file is being rewritten by another session, or cannot be
\* read) the except clause returns the empty answers of every folder.
album_load_survey_data(file, ok) ==
    IF file.exists /\ ok THEN file.data ELSE [f \in AlbumFolders |-> <<>>]

\* album_category.py:39-44
album_save_survey_data(survey_data) == [exists |-> TRUE, data |-> survey_data]

\* a delete_survey_entry that drops the entries from that timestamp on
album_delete_survey_entry_m(file, folder, timestamp, ok) ==
    LET survey_data == album_load_survey_data(file, ok)
        Other(entry) == entry.timestamp < timestamp
    IN IF folder \in DOMAIN survey_data
       THEN album_save_survey_data([survey_data EXCEPT ![folder] = SelectSeq(@, Other)])
       ELSE file

\* album_category.py:46-50
album_delete_survey_entry(file, folder, timestamp, ok) ==
    LET survey_data == album_load_survey_data(file, ok)
        Other(entry) == entry.timestamp # timestamp
    IN IF folder \in DOMAIN survey_data
       THEN album_save_survey_data([survey_data EXCEPT ![folder] = SelectSeq(@, Other)])
       ELSE file

AlbumEntries(file) == {<<f, i>> : f \in AlbumFolders, i \in 1..MaxAlbumEntries} \cap
                      {<<f, i>> \in AlbumFolders \X (1..MaxAlbumEntries) : i <= Len(file.data[f])}

AlbumUnchanged == UNCHANGED <<program, FORCE_DB_RESET, ADMIN_PASSWORD, db, cache,
                              session_state, uuids, image_files>>

\* whether a load_survey_data call of the run gets through
LoadOutcomes == BOOLEAN

\* album_category.py:71 and 124-133: the run that handles Submit
AlbumSubmit ==
    /\ program = "album_category"
    /\ now < MaxClock
    /\ Cardinality(AlbumEntries(survey_file)) < MaxAlbumEntries
    /\ \E folder \in AlbumUiFolders, rating \in SliderInputs(album_rating_slider),
          feedback \in FeedbackInputs, ok \in LoadOutcomes :
          LET survey_data == album_load_survey_data(survey_file, ok)
              survey_entry == [rating |-> rating, feedback |-> feedback, timestamp |-> now + 1]
          IN /\ survey_file' = album_save_survey_data(
                                   [survey_data EXCEPT ![folder] = Append(@, survey_entry)])
             /\ last_run' = [op |-> "run", folder |-> folder, ret |-> ok, exc |-> "none",
                             kind |-> "submit", entry |-> survey_entry]
    /\ now' = now + 1
    /\ AlbumUnchanged

\* album_category.py:138-145: the run that handles a Delete button; the
\* button is drawn from the survey_data of line 71 (ok), and
\* delete_survey_entry loads the file again (ok2)
AlbumDelete ==
    /\ program = "album_category"
    /\ \E folder \in AlbumUiFolders, ok \in LoadOutcomes, ok2 \in LoadOutcomes :
          \E i \in DOMAIN album_load_survey_data(survey_file, ok)[folder] :
              LET timestamp == album_load_survey_data(survey_file, ok)[folder][i].timestamp
              IN /\ survey_file' = album_delete_survey_entry(survey_file, folder, timestamp, ok2)
                 /\ last_run' = [op |-> "run", folder |-> folder, ret |-> ok2, exc |-> "none",
                                 kind |-> "delete", timestamp |-> timestamp]
    /\ now' = now
    /\ AlbumUnchanged

-----------------------------------------------------------------------------
(* Spec: the scripts as a visitor drives them                              *)

\* which widgets the last run drew
SidebarShown ==
    /\ program = "chitradrishya"
    /\ last_run.op = "run"
    /\ last_run.exc \in {"none", "IndexError", "IntegrityError"}
AuthorShown == SidebarShown /\ AuthorGate(session_state)
SwapShown == AuthorShown /\ last_run.exc # "IntegrityError"
MainShown == program = "chitradrishya" /\ last_run.op = "run" /\ last_run.exc = "none"
GridShown == MainShown /\ session_state.zoom_folder = <<>>
ZoomShown == MainShown /\ session_state.zoom_folder # <<>>

\* chitradrishya.py:1116-1121: the img_dict the zoom view drew
ZoomImgShown ==
    /\ ZoomShown
    /\ session_state.zoom_folder \in DOMAIN cache.get_images
    /\ session_state.zoom_index + 1 \in DOMAIN cache.get_images[session_state.zoom_folder]

ZoomImg == cache.get_images[session_state.zoom_folder][session_state.zoom_index + 1]

\* chitradrishya.py:1172-1174: the zoom view drew the download button
DownloadOffered == ZoomImgShown /\ ZoomImg.download

\* chitradrishya.py:1158 and 1165: the zoom view drew the button
PreviousOffered == ZoomImgShown /\ session_state.zoom_index > 0
NextOffered ==
    /\ ZoomImgShown
    /\ session_state.zoom_index < Len(cache.get_images[session_state.zoom_folder]) - 1

\* the world a run of the script starts from
World == [db |-> db, cache |-> cache, ss |-> session_state, now |-> now,
          uuids |-> uuids, exc |-> "none", rerun |-> FALSE]

\* one run of chitradrishya.py triggered by the widget event ev
Run(ev) ==
    /\ program = "chitradrishya"
    /\ \E env \in Envs :
          \E a \in {Script(World, ev, FORCE_DB_RESET, ADMIN_PASSWORD, env)} :
             /\ db' = a.db
             /\ cache' = a.cache
             /\ session_state' = a.ss
             /\ now' = a.now
             /\ uuids' = a.uuids
             /\ last_run' = [op |-> "run", folder |-> <<>>, ret |-> FALSE, exc |-> a.exc]
    /\ UNCHANGED <<program, FORCE_DB_RESET, ADMIN_PASSWORD, survey_file, image_files>>

\* the first run of a session, or a run after a widget value changed
PageLoad ==
    \E q \in Queries : (q = <<>> \/ MainShown) /\ Run(NoEvent(q))

Login ==
    /\ SidebarShown
    /\ \E q \in Queries, pwd \in PasswordInputs : Run([kind |-> "login", q |-> q, pwd |-> pwd])

Logout ==
    /\ AuthorShown
    /\ \E q \in Queries : Run([kind |-> "logout", q |-> q])

AddFolder ==
    /\ AuthorShown
    /\ \E q \in Queries, new_folder \in UiSlugInputs, new_name \in NameInputs,
          new_age \in AgeInputs, new_profession \in ProfessionInputs,
          new_category \in CategoryInputs :
          Run([kind |-> "add_folder", q |-> q, new_folder |-> new_folder,
               new_name |-> new_name, new_age |-> new_age,
               new_profession |-> new_profession, new_category |-> new_category])

UpdateName ==
    /\ AuthorShown
    /\ \E q \in Queries, folder \in RenameFolders, new_name \in NameInputs :
          /\ folder \in FolderSet(cache.load_folders[<<>>])
          /\ Run([kind |-> "update_name", q |-> q, folder |-> folder, new_name |-> new_name])

Upload ==
    /\ AuthorShown
    /\ \E q \in Queries, u \in UploadInputs :
          /\ u.folder \in FolderSet(cache.load_folders[<<>>])
          /\ uuids + Len(EditedDataList(u.files)) <= MaxUploads
          /\ Run([kind |-> "upload", q |-> q, folder |-> u.folder,
                  download_allowed |-> u.download_allowed, files |-> u.files])

Swap ==
    /\ SwapShown
    /\ \E q \in Queries, folder \in UiFolders, file \in SwapFiles :
          /\ folder \in FolderSet(cache.load_folders[<<>>])
          /\ folder \in DOMAIN cache.get_images
          /\ cache.get_images[folder] # <<>>
          /\ Run([kind |-> "swap", q |-> q, folder |-> folder,
                  image |-> cache.get_images[folder][1].name, file |-> file])

Permissions ==
    /\ SwapShown
    /\ LET folder == cache.load_folders[<<>>][1].folder
       IN /\ folder \in DOMAIN cache.get_images
          /\ cache.get_images[folder] # <<>>
          /\ \E q \in Queries :
                Run([kind |-> "permissions", q |-> q,
                     flip |-> {cache.get_images[folder][1].name}])

View ==
    /\ GridShown
    /\ \E q \in Queries, folder \in UiFolders :
          /\ folder \in DOMAIN cache.get_images
          /\ \E i \in DOMAIN cache.get_images[folder] :
                Run([kind |-> "view", q |-> q, folder |-> folder, idx |-> i - 1])

SubmitSurvey ==
    /\ GridShown
    /\ now < MaxClock
    /\ \E q \in Queries, folder \in SurveyFolders, rating \in SliderInputs(rating_slider),
          feedback \in FeedbackInputs :
          /\ <<q>> \in DOMAIN cache.load_folders
          /\ folder \in FolderSet(cache.load_folders[<<q>>])
          /\ Run([kind |-> "survey", q |-> q, folder |-> folder, rating |-> rating,
                  feedback |-> feedback])

DeleteSurvey ==
    /\ GridShown
    /\ AuthorGate(session_state)
    /\ \E q \in Queries, i \in DOMAIN db.surveys :
          /\ <<q>> \in DOMAIN cache.load_folders
          /\ db.surveys[i].folder \in FolderSet(cache.load_folders[<<q>>])
          /\ Run([kind |-> "delete_survey", q |-> q, folder |-> db.surveys[i].folder,
                  timestamp |-> db.surveys[i].timestamp])

Previous == ZoomShown /\ \E q \in Queries : Run([kind |-> "prev", q |-> q])

NextImage == ZoomShown /\ \E q \in Queries : Run([kind |-> "next", q |-> q])

ApplyEditsButton ==
    /\ ZoomShown
    /\ AuthorGate(session_state)
    /\ now < MaxClock
    /\ \E q \in Queries, e \in ApplyInputs :
          Run([kind |-> "apply", q |-> q, ctl |-> e.ctl,
               crop_coords_input |-> e.crop_coords_input])

UndoLastEdit ==
    ZoomShown /\ AuthorGate(session_state) /\ \E q \in Queries : Run([kind |-> "undo", q |-> q])

DeleteImage ==
    ZoomShown /\ AuthorGate(session_state) /\ \E q \in Queries : Run([kind |-> "delete_image", q |-> q])

BackToGrid == ZoomShown /\ \E q \in Queries : Run([kind |-> "back", q |-> q])

\* gallery.db as an earlier server process left it: init_db had run and the
\* author had uploaded a JPEG as it was and a rotated PNG to artist1
PriorDb ==
    LET d0 == init_db(NoDb, "False", TRUE, [i \in 1..7 |-> T_AnnLee]).db
        d1 == load_images_to_db(d0, <<UploadPipeline(F_jpg.data, DefaultControls)>>,
                                T_artist1, TRUE, 0).db
    IN load_images_to_db(d1, <<UploadPipeline(F_png.data, Rotated)>>, T_artist1, FALSE, 1).db

\* the server process starts: no cache, no session; gallery.db is missing or
\* left by an earlier process
Init ==
    /\ program \in {"chitradrishya", "album_category"}
    /\ IF program = "chitradrishya"
       THEN FORCE_DB_RESET \in {Unbound} \cup FlagValues
       ELSE FORCE_DB_RESET = Unbound
    /\ ADMIN_PASSWORD \in AdminPasswords
    /\ IF program = "chitradrishya" THEN db \in {NoDb, PriorDb} ELSE db = NoDb
    /\ cache = NoCache
    /\ session_state = NoSession
    /\ last_run = NoRun
    /\ now = 0
    /\ uuids = Len(db.images)
    /\ survey_file = NoSurveyFile
    /\ image_files = NoImageFiles

Next ==
    \/ PageLoad \/ Login \/ Logout \/ AddFolder \/ UpdateName \/ Upload \/ Swap
    \/ Permissions \/ View \/ SubmitSurvey \/ DeleteSurvey \/ Previous \/ NextImage
    \/ ApplyEditsButton \/ UndoLastEdit \/ DeleteImage \/ BackToGrid
    \/ AlbumSubmit \/ AlbumDelete

Spec == Init /\ [][Next]_vars

-----------------------------------------------------------------------------
(* SpecApi: the helpers called directly                                    *)

ApiUnchanged == UNCHANGED <<program, FORCE_DB_RESET, ADMIN_PASSWORD, cache, session_state,
                            now, uuids, survey_file, image_files>>

ApiInitDb ==
    /\ program = "DatabaseManager"
    /\ \E writable \in BOOLEAN, gen \in GenChoices :
          LET r == init_db(db, FORCE_DB_RESET, writable, gen)
          IN /\ db' = r.db
             /\ last_run' = [op |-> "init_db", folder |-> <<>>, ret |-> FALSE, exc |-> r.exc]
    /\ ApiUnchanged

ApiAddFolder ==
    /\ program = "DatabaseManager"
    /\ \E folder \in SlugInputs, name \in NameInputs, age \in AgeInputs,
          profession \in ProfessionInputs, category \in CategoryInputs :
          LET r == add_folder(db, folder, name, age, profession, category)
          IN /\ db' = r.db
             /\ last_run' = [op |-> "add_folder", folder |-> folder, ret |-> r.ret, exc |-> "none"]
    /\ ApiUnchanged

ApiUpdateFolderName ==
    /\ program = "DatabaseManager"
    /\ \E folder \in SlugInputs, new_name \in NameInputs :
          LET r == update_folder_name(db, folder, new_name)
          IN /\ db' = r.db
             /\ last_run' = [op |-> "update_folder_name", folder |-> folder, ret |-> r.ret, exc |-> "none"]
    /\ ApiUnchanged


InitApi ==
    /\ program = "DatabaseManager"
    /\ FORCE_DB_RESET \in {Unbound} \cup FlagValues
    /\ ADMIN_PASSWORD \in AdminPasswords
    /\ db = NoDb
    /\ cache = NoCache
    /\ session_state = NoSession
    /\ last_run = NoRun
    /\ now = 0
    /\ uuids = 0
    /\ survey_file = NoSurveyFile
    /\ image_files = NoImageFiles

NextApi == ApiInitDb \/ ApiAddFolder \/ ApiUpdateFolderName

SpecApi == InitApi /\ [][NextApi]_vars

-----------------------------------------------------------------------------
(* SpecDb: the image and history helpers called directly                   *)

\* blobs handed to the helpers; None is what a failed ImageProcessor
\* operation returns
BlobInputs == {F_png.data}
EditedLists == {<<F_jpg.data>>, <<F_png.data, NoneBlob>>, <<NoneBlob>>,
                <<rotate_image(F_png.data, 90), F_jpg.data>>}
DbFolders == {T_artist1, T_teacher1}
SwapFolders == {T_artist1}

\* names of images: the uuid4() values drawn so far and one never drawn
DbNames == 1..(uuids + 1)

DbUnchanged == UNCHANGED <<program, FORCE_DB_RESET, ADMIN_PASSWORD, cache, session_state,
                           survey_file, image_files>>

DbInitDb ==
    /\ program = "DatabaseManager"
    /\ \E gen \in GenChoices :
          LET r == init_db(db, FORCE_DB_RESET, TRUE, gen)
          IN /\ db' = r.db
             /\ last_run' = [op |-> "init_db", folder |-> <<>>, ret |-> FALSE, exc |-> r.exc]
    /\ UNCHANGED <<now, uuids>>
    /\ DbUnchanged

DbUpdateFolderName ==
    /\ program = "DatabaseManager"
    /\ \E folder \in RenameFolders, new_name \in NameInputs :
          LET r == update_folder_name(db, folder, new_name)
          IN /\ db' = r.db
             /\ last_run' = [op |-> "update_folder_name", folder |-> folder,
                             ret |-> r.ret, exc |-> "none"]
    /\ UNCHANGED <<now, uuids>>
    /\ DbUnchanged

DbLoadImages ==
    /\ program = "DatabaseManager"
    /\ \E edited_data_list \in EditedLists, folder \in DbFolders :
       \E download_allowed \in {folder = T_artist1} :
          /\ uuids + Len(edited_data_list) <= MaxUploads
          /\ LET r == load_images_to_db(db, edited_data_list, folder, download_allowed, uuids)
             IN /\ db' = r.db
                /\ last_run' = [op |-> "load_images_to_db", folder |-> folder, ret |-> FALSE,
                                exc |-> r.exc, edited_data_list |-> edited_data_list]
          /\ uuids' = uuids + Len(edited_data_list)
    /\ UNCHANGED now
    /\ DbUnchanged

DbSwapImage ==
    /\ program = "DatabaseManager"
    /\ \E folder \in SwapFolders, name \in DbNames, data \in BlobInputs :
          LET r == swap_image(db, folder, name, data)
          IN /\ db' = r.db
             /\ last_run' = [op |-> "swap_image", folder |-> folder, ret |-> r.ret,
                             exc |-> "none", name |-> name, data |-> data]
    /\ UNCHANGED <<now, uuids>>
    /\ DbUnchanged

\* save_image_history as Apply Edits calls it: the id from get_image_id, the
\* bytes the caller holds
DbSaveHistory ==
    /\ program = "DatabaseManager"
    /\ now < MaxClock
    /\ \E i \in DOMAIN db.images : \E data \in {db.images[i].image_data} :
          /\ db' = save_image_history(db, db.images[i].id, db.images[i].folder, data, now + 1)
          /\ last_run' = [op |-> "save_image_history", folder |-> db.images[i].folder,
                          ret |-> FALSE, exc |-> "none", image_id |-> db.images[i].id]
    /\ now' = now + 1
    /\ UNCHANGED uuids
    /\ DbUnchanged

DbUndo ==
    /\ program = "DatabaseManager"
    /\ \E folder \in SwapFolders, name \in DbNames :
          LET r == undo_image_edit(db, folder, name)
          IN /\ db' = r.db
             /\ last_run' = [op |-> "undo_image_edit", folder |-> folder, ret |-> r.ret,
                             exc |-> "none", name |-> name]
    /\ UNCHANGED <<now, uuids>>
    /\ DbUnchanged

DbDeleteImage ==
    /\ program = "DatabaseManager"
    /\ db.tables
    /\ \E folder \in SwapFolders, name \in DbNames :
          /\ db' = delete_image(db, folder, name)
          /\ last_run' = [op |-> "delete_image", folder |-> folder, ret |-> FALSE,
                          exc |-> "none", name |-> name]
    /\ UNCHANGED <<now, uuids>>
    /\ DbUnchanged

\* the process has started; gallery.db is missing or left by an earlier process
InitDb ==
    /\ program = "DatabaseManager"
    /\ FORCE_DB_RESET \in {Unbound} \cup FlagValues
    /\ ADMIN_PASSWORD \in AdminPasswords
    /\ db \in {NoDb, PriorDb}
    /\ cache = NoCache
    /\ session_state = NoSession
    /\ last_run = NoRun
    /\ now = 0
    /\ uuids = Len(db.images)
    /\ survey_file = NoSurveyFile
    /\ image_files = NoImageFiles

NextDb ==
    \/ DbInitDb \/ DbUpdateFolderName \/ DbLoadImages \/ DbSwapImage \/ DbSaveHistory
    \/ DbUndo \/ DbDeleteImage

SpecDb == InitDb /\ [][NextDb]_vars

-----------------------------------------------------------------------------
(* Connection handling of the helpers, one step per statement group:       *)
(* conn = DatabaseManager.connect(), the try body, the except clauses and  *)
(* finally: conn.close().                                                  *)

Helpers ==
    {"init_db", "load_folders", "update_folder_name", "add_folder",
     "load_images_to_db", "swap_image", "save_image_history", "get_image_id",
     "undo_image_edit", "update_download_permission", "delete_image",
     "load_survey_data", "save_survey_data", "delete_survey_entry",
     "get_images", "apply_edits_update"}

\* helpers the script calls; get_image_id is called by undo_image_edit only
CalledHelpers == Helpers \ {"get_image_id"}

\* helpers called inside the try body (chitradrishya.py:337)
Calls(h) == IF h = "undo_image_edit" THEN <<"get_image_id">> ELSE <<>>

\* the exceptions an except clause of the helper handles without re-raising;
\* init_db re-raises the OperationalError it catches (chitradrishya.py:195-198)
Swallows(h) ==
    CASE h \in {"update_folder_name", "add_folder", "swap_image",
                "save_image_history", "undo_image_edit"}
            -> {"OperationalError", "IntegrityError", "ValueError"}
      [] h = "load_images_to_db" -> {"OperationalError"}
      [] OTHER -> {}

\* how the try body can end: by returning or falling off its end, or with an
\* exception of a statement in it
BodyOutcomes(h) ==
    CASE h = "apply_edits_update" -> {"OperationalError", "RerunException"}
      [] h = "undo_image_edit" -> {"return", "OperationalError", "ValueError"}
      [] h \in {"init_db", "add_folder", "load_images_to_db",
                "save_image_history", "save_survey_data"}
            -> {"return", "OperationalError", "IntegrityError"}
      [] OTHER -> {"return", "OperationalError"}

MaxConnections == 3

\* conn.close() without the close
conn_close_m(conns, id) == conns

conn_close(conns, id) == [conns EXCEPT ![id] = "closed"]

NoCalls == [op |-> "connections", stack |-> <<>>, conns |-> <<>>, result |-> "none"]

Frame(h, id) == [helper |-> h, conn |-> id, pending |-> "running", called |-> 0]

ConnUnchanged ==
    UNCHANGED <<program, FORCE_DB_RESET, ADMIN_PASSWORD, db, cache,
                session_state, now, uuids, survey_file, image_files>>

Top == last_run.stack[Len(last_run.stack)]

SetTop(f) == [last_run.stack EXCEPT ![Len(last_run.stack)] = f]

\* conn = DatabaseManager.connect() of a helper the script calls
ConnCall ==
    /\ last_run.stack = <<>>
    /\ \E h \in CalledHelpers :
         /\ Len(last_run.conns) + 1 + Len(Calls(h)) <= MaxConnections
         /\ last_run' = [last_run EXCEPT
                !.stack = <<Frame(h, Len(last_run.conns) + 1)>>,
                !.conns = Append(last_run.conns, "open"),
                !.result = "none"]
    /\ ConnUnchanged

\* sqlite3.connect raises: connect logs and re-raises, no connection exists
ConnConnectFails ==
    /\ last_run.stack = <<>>
    /\ Len(last_run.conns) < MaxConnections
    /\ last_run' = [last_run EXCEPT !.result = "OperationalError"]
    /\ ConnUnchanged

\* a helper called inside the try body opens its own connection
ConnNestedCall ==
    /\ last_run.stack # <<>>
    /\ Top.pending = "running"
    /\ Top.called < Len(Calls(Top.helper))
    /\ last_run' = [last_run EXCEPT
           !.stack = Append(last_run.stack,
                            Frame(Calls(Top.helper)[Top.called + 1],
                                  Len(last_run.conns) + 1)),
           !.conns = Append(last_run.conns, "open")]
    /\ ConnUnchanged

\* the rest of the try body
ConnBody ==
    /\ last_run.stack # <<>>
    /\ Top.pending = "running"
    /\ Top.called = Len(Calls(Top.helper))
    /\ \E outcome \in BodyOutcomes(Top.helper) :
         last_run' = [last_run EXCEPT !.stack = SetTop([Top EXCEPT !.pending = outcome])]
    /\ ConnUnchanged

\* an except clause handles the exception and the helper returns
ConnExcept ==
    /\ last_run.stack # <<>>
    /\ Top.pending \in Swallows(Top.helper)
    /\ last_run' = [last_run EXCEPT !.stack = SetTop([Top EXCEPT !.pending = "return"])]
    /\ ConnUnchanged

\* finally: conn.close(), then the return value or the exception reaches
\* the caller
ConnFinally ==
    /\ last_run.stack # <<>>
    /\ Top.pending \notin {"running"} \cup Swallows(Top.helper)
    /\ LET n == Len(last_run.stack)
           rest == SubSeq(last_run.stack, 1, n - 1)
           closed == conn_close(last_run.conns, Top.conn)
       IN IF n = 1
          THEN last_run' = [last_run EXCEPT !.stack = <<>>, !.conns = closed,
                                            !.result = Top.pending]
          ELSE last_run' = [last_run EXCEPT
                   !.stack = [rest EXCEPT ![n - 1] =
                                IF Top.pending = "return"
                                THEN [@ EXCEPT !.called = @ + 1]
                                ELSE [@ EXCEPT !.pending = Top.pending]],
                   !.conns = closed]
    /\ ConnUnchanged

InitConn ==
    /\ program = "connections"
    /\ FORCE_DB_RESET = FALSE
    /\ ADMIN_PASSWORD \in AdminPasswords
    /\ db = NoDb
    /\ cache = NoCache
    /\ session_state = NoSession
    /\ last_run = NoCalls
    /\ now = 0
    /\ uuids = 0
    /\ survey_file = NoSurveyFile
    /\ image_files = NoImageFiles

NextConn ==
    \/ ConnCall \/ ConnConnectFails \/ ConnNestedCall \/ ConnBody
    \/ ConnExcept \/ ConnFinally

SpecConn == InitConn /\ [][NextConn]_vars

-----------------------------------------------------------------------------
(* The file check, the search and the author's upload, swap and edit       *)
(* handlers, applied to a wider range of inputs in the session of a        *)
(* logged-in author.                                                       *)

F_noType == [ext |-> ".png", type |-> "", size |-> 1000,
             data |-> RawBlob("f", "PNG", "good")]
F_junk == [ext |-> ".png", type |-> "image/png", size |-> 1000,
           data |-> RawBlob("g", "PNG", "junk")]
F_5MB == [ext |-> ".jpeg", type |-> "", size |-> 5242880,
          data |-> RawBlob("h", "JPEG", "good")]
F_txt == [ext |-> ".txt", type |-> "", size |-> 1000,
          data |-> RawBlob("i", "None", "junk")]

\* files handed to validate_file alone
FileInputs ==
    [ext : {".png", ".gif"}, type : {"", "image/jpeg", "image/gif"},
     size : {5242880, 5242881},
     data : {RawBlob("x", "PNG", q) : q \in {"good", "truncated", "junk"}}]

FnUploadInputs ==
    { <<[file |-> F_big, ctl |-> Rotated], [file |-> F_noType, ctl |-> DefaultControls]>>,
      <<[file |-> F_junk, ctl |-> DefaultControls], [file |-> F_5MB, ctl |-> CroppedGray]>>,
      <<[file |-> F_gif, ctl |-> DefaultControls], [file |-> F_txt, ctl |-> DefaultControls]>>,
      <<[file |-> F_png, ctl |-> [DefaultControls EXCEPT !.crop = NoBottom(0, 0, 2)]]>> }

FnSwapFiles == {F_jpg, F_gif, F_big, F_junk, F_noType}

FnApplyInputs ==
    { [ctl |-> DefaultControls, crop_coords_input |-> NoCrop],
      [ctl |-> Rotated, crop_coords_input |-> NoCrop],
      [ctl |-> DefaultControls, crop_coords_input |-> Box(0, 0, 2, 2)],
      [ctl |-> [DefaultControls EXCEPT !.grayscale = TRUE],
       crop_coords_input |-> Box(2, 0, 2, 2)],
      [ctl |-> Rotated, crop_coords_input |-> NoBottom(0, 0, 2)],
      [ctl |-> Rotated, crop_coords_input |-> Box(0, 0, 20000, 20000)] }

FnQueries == {<<>>, <<"a", "r", "t">>, <<"A", "R", "T">>, <<"_">>, <<"%">>,
              <<"1">>, <<"n", " ", "L">>, <<"z">>, <<"T", "e", "a", "c", "h", "e", "r", "s">>}

FnFiles == {F_jpg, F_png, F_trunc, F_big, F_gif, F_noType, F_junk, F_5MB, F_txt}

FnUnchanged == UNCHANGED <<program, FORCE_DB_RESET, ADMIN_PASSWORD, survey_file, image_files>>

\* validate_file(file)
FnValidateFile ==
    /\ \E file \in FileInputs \cup FnFiles :
          last_run' = [op |-> "validate_file", file |-> file, ret |-> validate_file(file),
                       exc |-> "none"]
    /\ UNCHANGED <<db, cache, session_state, now, uuids>>
    /\ FnUnchanged

\* DatabaseManager.load_folders(search_query), uncached
FnLoadFolders ==
    /\ \E search_query \in FnQueries :
          last_run' = [op |-> "load_folders", search_query |-> search_query,
                       ret |-> load_folders(db, search_query), exc |-> "none"]
    /\ UNCHANGED <<db, cache, session_state, now, uuids>>
    /\ FnUnchanged

\* Upload Edited Images pressed
FnUpload ==
    /\ \E files \in FnUploadInputs :
          LET ev == [kind |-> "upload", folder |-> T_teacher1, download_allowed |-> TRUE,
                     files |-> files]
              w == UploadStep(SidebarDataStep(World), ev)
          IN /\ uuids + Len(EditedDataList(files)) <= MaxUploads + Len(PriorDb.images)
             /\ db' = w.db
             /\ cache' = w.cache
             /\ uuids' = w.uuids
             /\ last_run' = [op |-> "upload", files |-> files, exc |-> w.exc]
    /\ UNCHANGED <<session_state, now>>
    /\ FnUnchanged

\* Swap Image pressed
FnSwap ==
    /\ \E file \in FnSwapFiles :
          LET ev == [kind |-> "swap", folder |-> T_artist1, image |-> 1, file |-> file]
              w == SwapStep(SidebarDataStep(World), ev)
          IN /\ db' = w.db
             /\ cache' = w.cache
             /\ last_run' = [op |-> "swap", file |-> file, exc |-> w.exc]
    /\ UNCHANGED <<session_state, now, uuids>>
    /\ FnUnchanged

\* Apply Edits pressed on an image of the zoom view
FnApplyEdits ==
    /\ now < MaxClock
    /\ \E e \in FnApplyInputs, i \in DOMAIN get_images(db, T_artist1) :
          LET img_dict == get_images(db, T_artist1)[i]
              ev == [kind |-> "apply", ctl |-> e.ctl,
                     crop_coords_input |-> e.crop_coords_input]
              w0 == CropInput(World, ev)
              w == ApplyEdits(w0, T_artist1, img_dict, e.ctl)
          IN /\ db' = w.db
             /\ session_state' = w.ss
             /\ now' = w.now
             /\ last_run' = [op |-> "apply_edits", name |-> img_dict.name,
                             before |-> img_dict.data, ctl |-> e.ctl,
                             crop_coords |-> w0.ss.crop_coords, exc |-> w.exc,
                             failed |-> ApplyPipeline(img_dict.data, w0.ss.crop_coords,
                                                      e.ctl).data = NoneBlob]
    /\ UNCHANGED <<cache, uuids>>
    /\ FnUnchanged

InitFn ==
    /\ program = "author"
    /\ FORCE_DB_RESET = "False"
    /\ ADMIN_PASSWORD \in AdminPasswords
    /\ db = PriorDb
    /\ cache = NoCache
    /\ session_state = [NoSession EXCEPT !.is_author = TRUE]
    /\ last_run = NoRun
    /\ now = 0
    /\ uuids = Len(db.images)
    /\ survey_file = NoSurveyFile
    /\ image_files = NoImageFiles

NextFn == FnValidateFile \/ FnLoadFolders \/ FnUpload \/ FnSwap

SpecFn == InitFn /\ [][NextFn]_vars

\* the author swaps and edits the images of one folder
NextEdit == FnSwap \/ FnApplyEdits

SpecEdit == InitFn /\ [][NextEdit]_vars

-----------------------------------------------------------------------------
(* album_category.py as a whole: the picture of each folder, Prev and Next, *)
(* the survey forms, and the directories changing underneath               *)

MaxFiles == 3

\* the stored index used as it is
current_index_m(image_indices, folder, n) == image_indices[folder]

\* album_category.py:94 with n = len(image_files) > 0
current_index(image_indices, folder, n) == image_indices[folder] % n

\* album_category.py:21-22
NoImageIndices == [image_indices |-> [f \in AlbumFolders |-> 0]]

AlbumNavUnchanged ==
    UNCHANGED <<program, FORCE_DB_RESET, ADMIN_PASSWORD, db, cache, now, uuids,
                survey_file, image_files>>

\* album_category.py:108-111
AlbumPrev ==
    /\ program = "album_category"
    /\ \E folder \in AlbumUiFolders :
          LET n == image_files[folder]
              shown == current_index(session_state.image_indices, folder, n)
          IN /\ n > 0
             /\ session_state' = [session_state EXCEPT !.image_indices[folder] = (shown - 1) % n]
             /\ last_run' = [op |-> "run", folder |-> folder, ret |-> FALSE, exc |-> "none",
                             kind |-> "prev", index |-> shown]
    /\ AlbumNavUnchanged

\* album_category.py:112-115
AlbumNext ==
    /\ program = "album_category"
    /\ \E folder \in AlbumUiFolders :
          LET n == image_files[folder]
              shown == current_index(session_state.image_indices, folder, n)
          IN /\ n > 0
             /\ session_state' = [session_state EXCEPT !.image_indices[folder] = (shown + 1) % n]
             /\ last_run' = [op |-> "run", folder |-> folder, ret |-> FALSE, exc |-> "none",
                             kind |-> "next", index |-> shown]
    /\ AlbumNavUnchanged

\* image files are put into or taken out of a folder's directory
AlbumFilesChange ==
    /\ program = "album_category"
    /\ \E folder \in AlbumUiFolders, n \in 0..MaxFiles :
          /\ image_files' = [image_files EXCEPT ![folder] = n]
          /\ last_run' = [op |-> "run", folder |-> folder, ret |-> FALSE, exc |-> "none",
                          kind |-> "files"]
    /\ UNCHANGED <<program, FORCE_DB_RESET, ADMIN_PASSWORD, db, cache, session_state,
                   now, uuids, survey_file>>

InitAlbum ==
    /\ program = "album_category"
    /\ FORCE_DB_RESET = Unbound
    /\ ADMIN_PASSWORD \in AdminPasswords
    /\ db = NoDb
    /\ cache = NoCache
    /\ session_state = NoImageIndices
    /\ last_run = NoRun
    /\ now = 0
    /\ uuids = 0
    /\ survey_file = NoSurveyFile
    /\ image_files = NoImageFiles

NextAlbum == AlbumSubmit \/ AlbumDelete \/ AlbumPrev \/ AlbumNext \/ AlbumFilesChange

SpecAlbum == InitAlbum /\ [][NextAlbum]_vars

-----------------------------------------------------------------------------
(* Claims                                                                  *)

\* the pattern the documentation of validate_folder_name states: 3 to 20
\* characters, each a lowercase letter, a digit or an underscore
IsDocumentedSlug(folder) ==
    /\ Len(folder) >= 3
    /\ Len(folder) <= 20
    /\ \A i \in DOMAIN folder : folder[i] \in SlugChars

\* C1: after init_db and any sequence of add_folder and update_folder_name
\* calls, every folders row has a slug of 3 to 20 lowercase letters, digits
\* and underscores, and no two rows share a slug.
C1_SlugsWellFormedAndUnique ==
    /\ \A i \in DOMAIN db.folders : IsDocumentedSlug(db.folders[i].folder)
    /\ \A i, j \in DOMAIN db.folders :
          db.folders[i].folder = db.folders[j].folder => i = j

\* C3: add_folder with a slug that does not match the documented pattern
\* returns False and leaves the folders table as it was.
C3_BadSlugRejected ==
    [][(last_run'.op = "add_folder" /\ ~IsDocumentedSlug(last_run'.folder))
          => (last_run'.ret = FALSE /\ db'.folders = db.folders)]_vars

\* C4: add_folder with a valid slug that is already in the folders table
\* returns False and leaves every folders row as it was.
C4_DuplicateSlugRejected ==
    [][(last_run'.op = "add_folder" /\ IsDocumentedSlug(last_run'.folder)
           /\ last_run'.folder \in Slugs(db))
          => (last_run'.ret = FALSE /\ db'.folders = db.folders)]_vars

C4_Witness ==
    /\ last_run.op = "add_folder"
    /\ IsDocumentedSlug(last_run.folder)
    /\ last_run.ret = FALSE
    /\ last_run.folder \in Slugs(db)
    /\ \E i \in DOMAIN db.folders : db.folders[i].name # T_AnnLee

\* C2: after any sequence of operations every images row and every surveys
\* row has a folder value that is the slug of a folders row.
C2_RowsReferenceFolders ==
    /\ \A i \in DOMAIN db.images : db.images[i].folder \in Slugs(db)
    /\ \A i \in DOMAIN db.surveys : db.surveys[i].folder \in Slugs(db)

C2_Witness ==
    /\ db.images # <<>>
    /\ db.surveys # <<>>
    /\ db.image_history # <<>>
    /\ T_abc \in Slugs(db)

\* the database as init_db leaves it at the top of the next run
AfterInitDb == init_db(db, FORCE_DB_RESET, TRUE, [i \in 1..7 |-> T_AnnLee]).db

IsPrefix(s, t) == Len(s) <= Len(t) /\ SubSeq(t, 1, Len(s)) = s

\* C5: a run of a session whose is_author flag is false changes no folders,
\* images or image_history row and deletes no survey; the only write it can
\* make is to append a survey.
C5_AuthorOnlyWrites ==
    [][(program = "chitradrishya" /\ ~session_state.is_author)
          => /\ db'.folders = AfterInitDb.folders
             /\ db'.images = AfterInitDb.images
             /\ db'.image_history = AfterInitDb.image_history
             /\ IsPrefix(AfterInitDb.surveys, db'.surveys)]_vars

C5_Witness ==
    /\ ~session_state.is_author
    /\ last_run.op = "run"
    /\ db.surveys # <<>>
    /\ db.image_history # <<>>
    /\ \E i \in DOMAIN db.folders : db.folders[i].name = T_Bo

\* the world after the script has run on the event ev
WorldAfter(ev) ==
    [Script(World, ev, FORCE_DB_RESET, ADMIN_PASSWORD,
            [writable |-> TRUE, gen |-> [i \in 1..7 |-> T_AnnLee]])
        EXCEPT !.exc = "none", !.rerun = FALSE]

SessionAfter(ev) == WorldAfter(ev).ss

\* C6: is_author becomes true only in a run whose login form was submitted
\* with ADMIN_PASSWORD; a login with another password leaves it as it was,
\* and a logout sets it to false.
C6_AuthorOnlyByLogin ==
    /\ [](program = "chitradrishya"
            => /\ \A pwd \in PasswordInputs \ {ADMIN_PASSWORD} :
                     SessionAfter([kind |-> "login", q |-> <<>>, pwd |-> pwd]).is_author
                        = session_state.is_author
               /\ ~SessionAfter([kind |-> "logout", q |-> <<>>]).is_author)
    /\ [][(program = "chitradrishya" /\ ~session_state.is_author /\ session_state'.is_author)
             => session_state' = SessionAfter([kind |-> "login", q |-> <<>>,
                                               pwd |-> ADMIN_PASSWORD])]_vars

C6_Witness ==
    /\ session_state.is_author
    /\ ~SessionAfter([kind |-> "logout", q |-> <<>>]).is_author
    /\ SessionAfter([kind |-> "login", q |-> <<>>, pwd |-> "letmein"]).is_author

\* C7: at startup the force-reset flag has been read and init_db completes;
\* with the flag set and a database file present the database afterwards
\* holds the default folders only, with the flag unset the rows are kept.
C7_StartupResetFlag ==
    program = "chitradrishya"
       => LET r == init_db(db, FORCE_DB_RESET, TRUE, [i \in 1..7 |-> T_AnnLee])
          IN /\ FORCE_DB_RESET \in FlagValues
             /\ r.exc = "none"
             /\ (FORCE_DB_RESET = "True" /\ db.file)
                   => /\ r.db.folders = default_folders([i \in 1..7 |-> T_AnnLee])
                      /\ r.db.images = <<>>
                      /\ r.db.surveys = <<>>
                      /\ r.db.image_history = <<>>
             /\ FORCE_DB_RESET = "False"
                   => /\ IsPrefix(db.folders, r.db.folders)
                      /\ r.db.images = db.images
                      /\ r.db.surveys = db.surveys
                      /\ r.db.image_history = db.image_history

ApplyEvent(e) == [kind |-> "apply", q |-> <<>>, ctl |-> e.ctl,
                  crop_coords_input |-> e.crop_coords_input]

\* the database after Undo Last Edit is pressed in the world w
AfterUndo(w) ==
    Script(w, [kind |-> "undo", q |-> <<>>], FORCE_DB_RESET, ADMIN_PASSWORD,
           [writable |-> TRUE, gen |-> [i \in 1..7 |-> T_AnnLee]]).db

\* C8: when Apply Edits has been pressed on an image (its snapshot is the
\* newest image_history row) and Undo Last Edit is pressed next, the images row
\* holds the blob it held immediately before that Apply Edits.
C8_ApplyThenUndoRestores ==
    [][\A e \in ApplyInputs :
          (/\ ZoomShown
           /\ AuthorGate(session_state)
           /\ Len(db'.image_history) = Len(db.image_history) + 1
           /\ World' = WorldAfter(ApplyEvent(e)))
          => LET h == db'.image_history[Len(db'.image_history)]
                 undone == AfterUndo(World')
             IN \A i \in DOMAIN db.images :
                   db.images[i].id = h.image_id
                      => \E j \in DOMAIN undone.images :
                            /\ undone.images[j].id = h.image_id
                            /\ undone.images[j].image_data = db.images[i].image_data]_vars

UploadEvent(u) == [kind |-> "upload", q |-> <<>>, folder |-> u.folder,
                   download_allowed |-> u.download_allowed, files |-> u.files]

\* the valid image files of an upload, in order: those that pass
\* validate_file and whose pixels load
ValidFiles(files) ==
    LET Valid(f) == validate_file(f.file) /\ Decodes(f.file.data)
    IN SelectSeq(files, Valid)

\* C9: when an upload writes its rows, the row of every valid file left with
\* no crop and every control at its default holds the file's bytes, the
\* chosen folder and the chosen download flag.
C9_DefaultUploadStoresBytes ==
    [][\A u \in UploadInputs :
          (/\ AuthorShown
           /\ World' = WorldAfter(UploadEvent(u))
           /\ Len(db'.images) > Len(AfterInitDb.images))
          => LET valid == ValidFiles(u.files)
                 base == Len(AfterInitDb.images)
             IN \A k \in DOMAIN valid :
                   valid[k].ctl = DefaultControls
                      => /\ base + k <= Len(db'.images)
                         /\ db'.images[base + k].image_data = valid[k].file.data
                         /\ db'.images[base + k].folder = u.folder
                         /\ db'.images[base + k].download_allowed = u.download_allowed]_vars

C9_Witness ==
    /\ uuids = 1
    /\ Len(db.images) = 1
    /\ db.images[1].image_data = F_jpg.data
    /\ db.images[1].folder = T_artist1
    /\ db.images[1].download_allowed

\* C10: every survey entry stored, in the surveys table of chitradrishya.py
\* and in survey_data.json of album_category.py, has an integer rating from
\* 1 to 5.
C10_RatingsInRange ==
    /\ \A i \in DOMAIN db.surveys : db.surveys[i].rating \in 1..5
    /\ \A f \in DOMAIN survey_file.data :
          \A i \in DOMAIN survey_file.data[f] : survey_file.data[f][i].rating \in 1..5

C10_Witness ==
    /\ program = "chitradrishya"
    /\ \E i, j \in DOMAIN db.surveys : db.surveys[i].rating = 1 /\ db.surveys[j].rating = 5

\* C11 as stated: every write statement of a helper is committed on its own,
\* so an INSERT of load_images_to_db that succeeded stays when a later INSERT
\* of the same call fails.
C11_WritesCommitSeparately ==
    [][(/\ last_run'.op = "load_images_to_db"
        /\ db.tables
        /\ Head(last_run'.edited_data_list) # NoneBlob)
          => Len(db'.images) > Len(db.images)]_vars

\* C11 amended: the writes of one helper call are one transaction.  A
\* load_images_to_db call stores a row for every item of its list or, when an
\* INSERT raises, no row at all; an undo_image_edit call that returns True has
\* removed a snapshot, and one that returns False has changed neither table.
C11_CallCommitsOnce ==
    [][/\ (last_run'.op = "load_images_to_db" /\ db.tables)
          => \/ /\ last_run'.exc = "none"
                /\ Len(db'.images) = Len(db.images) + Len(last_run'.edited_data_list)
             \/ /\ last_run'.exc # "none"
                /\ db'.images = db.images
       /\ last_run'.op = "undo_image_edit"
          => \/ /\ last_run'.ret
                /\ Len(db'.image_history) = Len(db.image_history) - 1
             \/ /\ ~last_run'.ret
                /\ db'.images = db.images
                /\ db'.image_history = db.image_history]_vars

C11_Witness ==
    /\ last_run.op = "load_images_to_db"
    /\ last_run.edited_data_list = <<F_png.data, NoneBlob>>
    /\ last_run.exc = "IntegrityError"
    /\ db.tables
    /\ db.images = <<>>

\* C12: when no helper is running, every connection a helper (or the inline
\* update of Apply Edits) opened is closed, whether the helper returned or
\* raised; while helpers run, each holds a connection of its own, which is
\* open.
C12_ConnectionsClosed ==
    program = "connections" =>
        /\ last_run.stack = <<>> => \A i \in DOMAIN last_run.conns : last_run.conns[i] = "closed"
        /\ \A i, j \in DOMAIN last_run.stack :
              /\ last_run.conns[last_run.stack[i].conn] = "open"
              /\ i # j => last_run.stack[i].conn # last_run.stack[j].conn
        /\ \A i \in DOMAIN last_run.conns :
              last_run.conns[i] = "open" => \E k \in DOMAIN last_run.stack : last_run.stack[k].conn = i

\* a helper has raised and MaxConnections connections have been opened
C12_Witness ==
    /\ program = "connections"
    /\ last_run.stack = <<>>
    /\ last_run.result \in {"IntegrityError", "RerunException"}
    /\ Len(last_run.conns) = MaxConnections

\* C13: no call of a write helper ends with an sqlite3.IntegrityError
\* leaving the helper; the helper catches it and reports the failure.
C13_IntegrityErrorsCaught ==
    last_run.op \in {"init_db", "update_folder_name", "load_images_to_db",
                     "swap_image", "save_image_history", "undo_image_edit",
                     "delete_image"}
        => last_run.exc # "IntegrityError"

\* the three reasons the documentation gives for refusing a file: more than
\* 5 MB; a type that is not JPEG or PNG, the type being the MIME type when the
\* file carries one and the extension otherwise; Image.open(f).verify() fails
Rejected(file) ==
    \/ file.size > 5 * 1024 * 1024
    \/ (IF file.type = "" THEN file.ext ELSE file.type)
           \notin {"image/jpeg", "image/png", ".jpg", ".jpeg", ".png"}
    \/ file.data.q = "junk"

\* C14: validate_file returns False exactly for the files that are too large,
\* of another type than JPEG/PNG or fail verify(), and no images row holds
\* bytes made from such a file, whether it was offered to the upload or to the
\* swap.
C14_ValidateFileExact ==
    /\ last_run.op = "validate_file" => (last_run.ret <=> ~Rejected(last_run.file))
    /\ \A i \in DOMAIN db.images, f \in FnFiles :
          Rejected(f) => db.images[i].image_data.src # f.data.src

\* an upload of a refused file together with a valid one has stored the valid one
C14_Witness ==
    /\ last_run.op = "upload"
    /\ \E k \in DOMAIN last_run.files : Rejected(last_run.files[k].file)
    /\ \E i \in DOMAIN db.images : db.images[i].image_data = F_noType.data

\* C15: an Apply Edits whose crop_coords is absent, lacks a key or describes
\* a box of no width or height ends without an exception, and the images row
\* then holds the listed bytes with the other edits applied and no crop.
C15_MissingCropHandled ==
    (/\ last_run.op = "apply_edits"
     /\ \/ last_run.crop_coords.kind # "box"
        \/ ~ValidBox(crop_box(last_run.crop_coords)))
       => /\ last_run.exc = "none"
          /\ \E i \in DOMAIN db.images :
                /\ db.images[i].folder = T_artist1
                /\ db.images[i].name = last_run.name
                /\ db.images[i].image_data = EditsAfterCrop(last_run.before, last_run.ctl)

\* the images row Apply Edits was pressed on
EditedRows ==
    {i \in DOMAIN db.images :
        db.images[i].folder = T_artist1 /\ db.images[i].name = last_run.name}

\* a crop was performed or a control was moved off its default
SomethingEdited ==
    \/ last_run.crop_coords.kind = "box" /\ ValidBox(crop_box(last_run.crop_coords))
    \/ [last_run.ctl EXCEPT !.crop = NoCrop] # DefaultControls

\* C17 as stated: after every Apply Edits that updates the row, the row holds
\* a PNG, also when no control was changed.
C17_ApplyLeavesPng ==
    (last_run.op = "apply_edits" /\ last_run.exc = "none")
       => \A i \in EditedRows : db.images[i].image_data.fmt = "PNG"

\* C17 amended: after an Apply Edits whose operations returned data and that
\* cropped or had a control off its default the row holds a PNG, whatever the format before; after an Apply
\* Edits with nothing to do the row holds the listed bytes as they were.
C17_EditedBlobIsPng ==
    (last_run.op = "apply_edits" /\ last_run.exc = "none" /\ ~last_run.failed)
       => \A i \in EditedRows :
             IF SomethingEdited
             THEN db.images[i].image_data.fmt = "PNG"
             ELSE db.images[i].image_data = last_run.before

C17_Witness ==
    /\ last_run.op = "apply_edits"
    /\ last_run.exc = "none"
    /\ last_run.before.fmt = "JPEG"
    /\ SomethingEdited
    /\ \E i \in EditedRows : db.images[i].image_data.fmt = "PNG"

DefaultSlugs ==
    {T_artist1, T_artist2, T_teacher1, T_artist3, T_engineer1, T_engineer2, T_teacher2}

\* C16: an init_db call on an initialised database leaves every row of every
\* table as it was (a renamed default folder keeps its new name) and adds
\* folders rows only for default slugs that were missing; on an empty database
\* it leaves exactly the seven default folders.
C16_InitDbIdempotent ==
    [][last_run'.op = "init_db"
          => IF db.tables
             THEN /\ IsPrefix(db.folders, db'.folders)
                  /\ db'.images = db.images
                  /\ db'.surveys = db.surveys
                  /\ db'.image_history = db.image_history
                  /\ \A i \in DOMAIN db'.folders :
                        i > Len(db.folders)
                           => /\ db'.folders[i].folder \in DefaultSlugs
                              /\ db'.folders[i].folder \notin Slugs(db)
             ELSE /\ Len(db'.folders) = 7
                  /\ Slugs(db') = DefaultSlugs]_vars

\* q occurs in text as a run of consecutive characters
Occurs(q, text) ==
    \E i \in 0..Len(text) : i + Len(q) <= Len(text) /\ SubSeq(text, i + 1, i + Len(q)) = q

\* C18: load_folders(q) returns, in table order, exactly the folders whose
\* name, slug, profession or category contains q as a literal substring, and
\* so every folder when q is empty.
C18_SearchBySubstring ==
    last_run.op = "load_folders"
       => LET q == last_run.search_query
              Hit(r) == \/ Occurs(q, r.name) \/ Occurs(q, r.folder)
                        \/ Occurs(q, r.profession) \/ Occurs(q, r.category)
          IN last_run.ret = SelectSeq(db.folders, Hit)

\* the images rows a folder and name pair selects, and the snapshots of an image
RowsOf(d, folder, name) ==
    {i \in DOMAIN d.images : d.images[i].folder = folder /\ d.images[i].name = name}

Snapshots(d, image_id) ==
    {h \in DOMAIN d.image_history : d.image_history[h].image_id = image_id}

Newest(d, image_id) ==
    CHOOSE h \in Snapshots(d, image_id) :
        \A k \in Snapshots(d, image_id) :
            d.image_history[k].timestamp <= d.image_history[h].timestamp

RemoveAt(s, h) == SubSeq(s, 1, h - 1) \o SubSeq(s, h + 1, Len(s))

ImageData(d, i) == d.images[i].image_data

\* C19: undo_image_edit on an image that has snapshots returns True, puts the
\* newest snapshot's bytes into the image's row and changes no other row,
\* and removes that one snapshot and no other; on an image with two snapshots
\* two undos in a row restore the newer one first and the older one second.
C19_UndoRestoresNewest ==
    /\ [][\A i \in DOMAIN db.images :
            (/\ last_run'.op = "undo_image_edit"
             /\ i \in RowsOf(db, last_run'.folder, last_run'.name)
             /\ Snapshots(db, db.images[i].id) # {})
               => LET h == Newest(db, db.images[i].id)
                  IN /\ last_run'.ret
                     /\ db'.images = [db.images EXCEPT
                                          ![i].image_data = db.image_history[h].image_data]
                     /\ db'.image_history = RemoveAt(db.image_history, h)]_vars
    /\ [](\A i \in DOMAIN db.images :
            Cardinality(Snapshots(db, db.images[i].id)) >= 2
               => LET r1 == undo_image_edit(db, db.images[i].folder, db.images[i].name)
                      r2 == undo_image_edit(r1.db, db.images[i].folder, db.images[i].name)
                      h1 == Newest(db, db.images[i].id)
                      h2 == Newest(r1.db, db.images[i].id)
                  IN /\ r1.ret /\ r2.ret
                     /\ ImageData(r1.db, i) = db.image_history[h1].image_data
                     /\ ImageData(r2.db, i) = r1.db.image_history[h2].image_data
                     /\ r1.db.image_history[h2].timestamp < db.image_history[h1].timestamp)

\* an undo has returned True and an older snapshot of the image is still there
C19_Witness ==
    /\ last_run.op = "undo_image_edit"
    /\ last_run.ret
    /\ \E i \in RowsOf(db, last_run.folder, last_run.name) :
          Snapshots(db, db.images[i].id) # {}

\* C20: undo_image_edit on a folder and name that select no image, or on an
\* image that has no snapshot, returns False and leaves the images and
\* image_history tables as they were.
C20_UndoWithoutSnapshot ==
    [][(/\ last_run'.op = "undo_image_edit"
        /\ \A i \in RowsOf(db, last_run'.folder, last_run'.name) :
              Snapshots(db, db.images[i].id) = {})
          => /\ ~last_run'.ret
             /\ db'.images = db.images
             /\ db'.image_history = db.image_history]_vars

\* an undo on a pair that selects no image has returned False while
\* snapshots of other images exist
C20_Witness ==
    /\ last_run.op = "undo_image_edit"
    /\ ~last_run.ret
    /\ RowsOf(db, last_run.folder, last_run.name) = {}
    /\ db.image_history # <<>>

\* C21: a run of album_category.py that handles a survey Delete button leaves
\* in survey_data.json, for the button's folder, the entries whose timestamp
\* is not the button's, in their order, and for every other folder the
\* entries it had.
C21_DeleteRemovesExactly ==
    [][(program = "album_category" /\ last_run'.op = "run" /\ last_run'.kind = "delete")
          => \A f \in AlbumFolders :
                LET Other(entry) == entry.timestamp # last_run'.timestamp
                IN survey_file'.data[f] = IF f = last_run'.folder
                                          THEN SelectSeq(survey_file.data[f], Other)
                                          ELSE survey_file.data[f]]_vars

\* C30: a run of album_category.py that handles a survey Submit leaves in
\* survey_data.json every entry that was there, in its place, and one new
\* entry at the end of the submitted folder's list.
C30_SubmitKeepsEntries ==
    [][(program = "album_category" /\ last_run'.op = "run" /\ last_run'.kind = "submit")
          => \A f \in AlbumFolders :
                survey_file'.data[f] = IF f = last_run'.folder
                                       THEN Append(survey_file.data[f], last_run'.entry)
                                       ELSE survey_file.data[f]]_vars

\* C29: in album_category.py the index displayed for a folder that has image
\* files lies in 0 .. number of files - 1, whatever index was stored and
\* however the directory changed since; Next from the last image shows the
\* first one and otherwise the following one, Prev from the first image shows
\* the last one and otherwise the preceding one.
C29_IndexInRange ==
    /\ [](\A f \in AlbumFolders :
            image_files[f] > 0
               => current_index(session_state.image_indices, f, image_files[f])
                     \in 0 .. (image_files[f] - 1))
    /\ [][(program = "album_category" /\ last_run'.op = "run"
             /\ last_run'.kind \in {"prev", "next"})
            => LET f == last_run'.folder
                   n == image_files[f]
                   was == last_run'.index
                   shown == current_index(session_state'.image_indices, f, image_files'[f])
               IN IF last_run'.kind = "next"
                  THEN shown = (IF was = n - 1 THEN 0 ELSE was + 1)
                  ELSE shown = (IF was = 0 THEN n - 1 ELSE was - 1)]_vars

\* Next was pressed on the last of several images and the first one is
\* stored, while another folder's stored index is past the end of its
\* directory, which lost files since
C29_Witness ==
    /\ program = "album_category"
    /\ last_run.op = "run"
    /\ last_run.kind = "next"
    /\ image_files[last_run.folder] > 1
    /\ last_run.index = image_files[last_run.folder] - 1
    /\ session_state.image_indices[last_run.folder] = 0
    /\ \E g \in AlbumFolders :
          /\ image_files[g] > 0
          /\ session_state.image_indices[g] >= image_files[g]

\* C22: swap_image(folder, name, file) leaves the images table with the same
\* rows in the same order; a row of another folder or name is unchanged, a row
\* with that folder and name differs at most in image_data, which is the
\* file's content; folders, surveys, image_history and the id counters are
\* unchanged.  With no matching row nothing changes.
C22_SwapChangesOnlyData ==
    [][(program = "DatabaseManager" /\ last_run'.op = "swap_image")
          => /\ DOMAIN db'.images = DOMAIN db.images
             /\ \A i \in DOMAIN db.images :
                   IF db.images[i].folder = last_run'.folder
                         /\ db.images[i].name = last_run'.name /\ last_run'.ret
                   THEN db'.images[i] = [db.images[i] EXCEPT !.image_data = last_run'.data]
                   ELSE db'.images[i] = db.images[i]
             /\ db'.image_history = db.image_history
             /\ db'.folders = db.folders
             /\ db'.surveys = db.surveys
             /\ db'.seq = db.seq]_vars

\* a swap has replaced the content of one row while a row of another folder
\* with other content and a snapshot exist
C22_Witness ==
    /\ program = "DatabaseManager"
    /\ last_run.op = "swap_image"
    /\ last_run.ret
    /\ \E i, j \in DOMAIN db.images :
          /\ db.images[i].folder = last_run.folder
          /\ db.images[i].name = last_run.name
          /\ db.images[i].image_data = last_run.data
          /\ db.images[j].folder # last_run.folder
          /\ db.images[j].image_data # last_run.data
    /\ db.image_history # <<>>

\* C23: what the next get_images(folder) and load_folders(query) call of the
\* process returns is what the database holds: a result that st.cache_data
\* has stored for those arguments, which the next call returns, equals the
\* uncached body run on the database as it is now.
C23_ReadsReturnDatabase ==
    program = "chitradrishya"
       => /\ \A folder \in DOMAIN cache.get_images :
                cache.get_images[folder] = get_images(db, folder)
          /\ \A key \in DOMAIN cache.load_folders :
                cache.load_folders[key]
                   = load_folders(db, IF key = <<>> THEN <<>> ELSE key[1])

\* C24: when the zoom view offers the download button, the images row of the
\* zoomed folder and name has download_allowed true in the database.
C24_DownloadOnlyIfAllowed ==
    DownloadOffered
       => \E i \in DOMAIN db.images :
             /\ db.images[i].folder = session_state.zoom_folder
             /\ db.images[i].name = ZoomImg.name
             /\ db.images[i].download_allowed

\* C25: while zoom_folder is set, the list the zoom view gets from get_images
\* is not empty and 0 <= zoom_index < len(images); a press of Previous moves
\* the index down by one where idx > 0 and is not possible otherwise, a press
\* of Next moves it up by one where idx < len(images) - 1 and is not possible
\* otherwise, so neither wraps around.
C25_ZoomIndexInRange ==
    /\ []((program = "chitradrishya" /\ session_state.zoom_folder # <<>>)
            => /\ session_state.zoom_folder \in DOMAIN cache.get_images
               /\ cache.get_images[session_state.zoom_folder] # <<>>
               /\ session_state.zoom_index
                     \in 0 .. (Len(cache.get_images[session_state.zoom_folder]) - 1))
    /\ [][Previous => session_state'.zoom_index
                         = IF PreviousOffered THEN session_state.zoom_index - 1
                                              ELSE session_state.zoom_index]_vars
    /\ [][NextImage => session_state'.zoom_index
                          = IF NextOffered THEN session_state.zoom_index + 1
                                           ELSE session_state.zoom_index]_vars

\* the zoom view shows the last of several images, reached with Next, after
\* the author deleted an image of that folder
C25_Witness ==
    /\ ZoomImgShown
    /\ session_state.zoom_index > 0
    /\ ~NextOffered
    /\ Len(get_images(db, session_state.zoom_folder))
          < Len(cache.get_images[session_state.zoom_folder])

\* C26: a press of Delete Image in the zoom view removes from images exactly
\* the rows with the zoomed folder and the shown name; when the folder has no
\* image left the session is back in the grid view (zoom_folder None,
\* zoom_index 0); otherwise zoom_index is max(0, idx - 1) and the view does
\* not show the deleted image.
C26_DeleteImageLeavesView ==
    [][(DeleteImage /\ ZoomImgShown)
          => LET folder == session_state.zoom_folder
                 idx == session_state.zoom_index
                 name == ZoomImg.name
                 Kept(r) == ~(r.folder = folder /\ r.name = name)
                 InFolder(r) == r.folder = folder
             IN /\ db'.images = SelectSeq(db.images, Kept)
                /\ IF SelectSeq(db'.images, InFolder) = <<>>
                   THEN /\ session_state'.zoom_folder = <<>>
                        /\ session_state'.zoom_index = 0
                   ELSE /\ session_state'.zoom_folder = folder
                        /\ session_state'.zoom_index = Max(0, idx - 1)
                        /\ ZoomImgShown' => ZoomImg'.name # name]_vars

\* C27: an Apply Edits that ends in the 'Failed to edit image.' branch (an
\* image operation returned None) leaves the images table and the
\* image_history table as they were before the button was pressed.
C27_FailedEditChangesNothing ==
    [][(last_run'.op = "apply_edits" /\ last_run'.exc = "none" /\ last_run'.failed)
          => /\ db'.images = db.images
             /\ db'.image_history = db.image_history]_vars

\* C28: every image_history row has the id of an existing images row in its
\* image_id column.
C28_HistoryHasImage ==
    \A h \in DOMAIN db.image_history :
       \E i \in DOMAIN db.images : db.images[i].id = db.image_history[h].image_id

====
